---- MODULE Spec2Model ----
(***************************************************************************)
(* Model of the financial-PDF extraction pipeline:                         *)
(*   - pdf_processor.py : the text-extraction cascade                      *)
(*       (pdfplumber -> PyMuPDF -> OCR) and the batch coordinator          *)
(*   - bedrock_client.py: attribute extraction from the model's answer     *)
(*   - app.py           : the extract-button handler that consolidates     *)
(*   - excel_generator.py: the consolidated report (year-over-year sheet   *)
(*                         and attribute statistics)                       *)
(*                                                                         *)
(* The specifications of the module:                                       *)
(*   Spec          one call of PDFProcessor.extract_text_from_pdf          *)
(*   SpecBatch     one call of PDFProcessor.process_multiple_pdfs          *)
(*   SpecBatchLive the same call, its steps taken under weak fairness      *)
(*   SpecAttr      one call of BedrockClient.extract_attributes followed   *)
(*                 by the handler's consolidation of the answer            *)
(*   SpecReport    generate_consolidated_excel_report on a batch, and once *)
(*                 more on the same documents in any order                 *)
(*   SpecBot       BotInterface._check_data_availability on the context's  *)
(*                 consolidated data                                       *)
(*   SpecClients   app.py's initialize_clients on an environment           *)
(*   SpecHandler   the extract-button handler's loop over a batch's        *)
(*                 results, up to the saving of the outputs                *)
(*                                                                         *)
(* Texts are kept as run-length encodings: a text is a sequence of runs,   *)
(* each run n > 0 characters that are all whitespace or all                *)
(* non-whitespace.  len(), strip(), truthiness and join() are exact on     *)
(* that encoding.  Scores are exact fractions [n, d] in lowest terms.      *)
(***************************************************************************)
EXTENDS Integers, Sequences, FiniteSets, TLC

VARIABLES pc, pdf_pages, text_content, result, called, native_yield,
          bpc, docs, task, future, results, cursor, timed_out, finished,
          apc, schema, pdf_result, request, reply, response, consolidated,
          rpc, json_data_list, lenient, processing_summary, report, reordered,
          second_report,
          qpc, context_data, availability,
          ipc, environ, clients, init_error,
          hpc, pdf_results, position, invocations, extracted_results, handed

cascadeVars == <<pc, pdf_pages, text_content, result, called, native_yield>>
batchVars   == <<bpc, docs, task, future, results, cursor, timed_out, finished>>
attrVars    == <<apc, schema, pdf_result, request, reply, response, consolidated>>
reportVars  == <<rpc, json_data_list, lenient, processing_summary, report,
                 reordered, second_report>>
botVars     == <<qpc, context_data, availability>>
clientVars  == <<ipc, environ, clients, init_error>>
handlerVars == <<hpc, pdf_results, position, invocations, extracted_results, handed>>
vars        == <<cascadeVars, batchVars, attrVars, reportVars, botVars, clientVars, handlerVars>>

(***************************************************************************)
(* Bounds of the model.                                                    *)
(***************************************************************************)
MaxPages == 2
MaxElapsed == 1

(***************************************************************************)
(* Program constants of pdf_processor.py.                                  *)
(***************************************************************************)
WinThreshold == 100
SufficiencyFloor == 50
OcrPageLimit == 10
OcrWordConfidence == 30

(***************************************************************************)
(* Texts.                                                                  *)
(***************************************************************************)
Ws(n) == IF n = 0 THEN <<>> ELSE << [ws |-> TRUE, n |-> n] >>
NonWs(n) == IF n = 0 THEN <<>> ELSE << [ws |-> FALSE, n |-> n] >>

RECURSIVE TLen(_)
TLen(t) == IF t = <<>> THEN 0 ELSE Head(t).n + TLen(Tail(t))

Truthy(t) == TLen(t) > 0

RECURSIVE LStrip(_)
LStrip(t) == IF t = <<>> THEN <<>>
             ELSE IF Head(t).ws THEN LStrip(Tail(t)) ELSE t

RECURSIVE RStrip(_)
RStrip(t) == IF t = <<>> THEN <<>>
             ELSE IF t[Len(t)].ws THEN RStrip(SubSeq(t, 1, Len(t) - 1)) ELSE t

Strip(t) == RStrip(LStrip(t))

RECURSIVE Join(_, _)
Join(sep, parts) ==
    IF parts = <<>> THEN <<>>
    ELSE IF Len(parts) = 1 THEN parts[1]
    ELSE parts[1] \o sep \o Join(sep, Tail(parts))

Newline == Ws(1)
Space == Ws(1)

(***************************************************************************)
(* Exact fractions.                                                        *)
(***************************************************************************)
RECURSIVE Gcd(_, _)
Gcd(a, b) == IF b = 0 THEN a ELSE Gcd(b, a % b)

Abs(x) == IF x < 0 THEN -x ELSE x

Frac(n, d) ==
    LET g == Gcd(Abs(n), d)
    IN  [n |-> n \div g, d |-> d \div g]

FAdd(a, b) == Frac(a.n * b.d + b.n * a.d, a.d * b.d)
FDivInt(a, k) == Frac(a.n, a.d * k)
FLe(a, b) == a.n * b.d <= b.n * a.d
FZero == Frac(0, 1)
FOne == Frac(1, 1)

RECURSIVE SumSeq(_)
SumSeq(s) == IF s = <<>> THEN 0 ELSE Head(s) + SumSeq(Tail(s))

RECURSIVE FSum(_)
FSum(s) == IF s = <<>> THEN FZero ELSE FAdd(Head(s), FSum(Tail(s)))

(***************************************************************************)
(* dict.update                                                             *)
(***************************************************************************)
UpdateNothing(r, u) == r

Update(r, u) ==
    [k \in (DOMAIN r) \cup (DOMAIN u) |-> IF k \in DOMAIN u THEN u[k] ELSE r[k]]

(***************************************************************************)
(* The documents the cascade is run on.  A strategy's library call either  *)
(* returns ("ok"), raises an error the strategy's own try/except contains  *)
(* ("fails"), or raises one that leaves the strategy ("escapes") and       *)
(* reaches the except clause of extract_text_from_pdf.                     *)
(***************************************************************************)
PageTexts == { <<>>, Ws(1), NonWs(40), NonWs(60), NonWs(100) }

Blank == [blank |-> TRUE, conf |-> -1, n |-> 1]
Word(c, n) == [blank |-> FALSE, conf |-> c, n |-> n]

OcrPages == { <<>>, <<Blank>>, <<Word(30, 25)>>, <<Word(31, 24)>>,
              <<Word(31, 24), Word(100, 25)>>, <<Word(100, 25), Blank, Word(100, 25)>> }

TextLayerInputs(n) ==
    [outcome : {"ok"}, pages : [1..n -> PageTexts]]
        \cup [outcome : {"fails", "escapes"}, pages : {<<>>}]

OcrInputs(n) ==
    [outcome : {"ok"}, pages : [1..n -> OcrPages]]
        \cup [outcome : {"fails", "escapes"}, pages : {<<>>}]

InsufficientText == "Insufficient text extracted from PDF"
OcrUnreadable == "OCR could not extract readable text"
OcrFailed == "OCR failed: error"
StrategyError == "error"

(***************************************************************************)
(* extract_text_from_pdf: the result dictionary it starts from.            *)
(***************************************************************************)
InitialResult(filename) ==
    [filename |-> filename, text |-> <<>>, page_count |-> 0,
     extraction_method |-> "", processing_time |-> 0, has_text |-> FALSE,
     has_images |-> FALSE, confidence_score |-> FZero, errors |-> <<>>]

ResultKeys == {"filename", "text", "page_count", "extraction_method",
               "processing_time", "has_text", "has_images", "confidence_score",
               "errors"}

(***************************************************************************)
(* _extract_with_pdfplumber: the truthy page texts joined by newlines, or  *)
(* the empty text when the library raised.                                 *)
(***************************************************************************)
ExtractWithPdfplumber(in) ==
    IF in.outcome = "ok"
    THEN Join(Newline, SelectSeq(in.pages, LAMBDA p : Truthy(p)))
    ELSE <<>>

(***************************************************************************)
(* _extract_with_pymupdf: the page texts that are not blank after strip(), *)
(* joined by newlines, or the empty text when the library raised.          *)
(***************************************************************************)
ExtractWithPymupdf(in) ==
    IF in.outcome = "ok"
    THEN Join(Newline, SelectSeq(in.pages, LAMBDA p : Truthy(Strip(p))))
    ELSE <<>>

(***************************************************************************)
(* _extract_with_ocr.                                                      *)
(***************************************************************************)
OcrKeptWords(words) ==
    SelectSeq(words, LAMBDA w : ~w.blank /\ w.conf > OcrWordConfidence)

OcrPageText(words) ==
    LET kept == OcrKeptWords(words)
    IN  Join(Space, [i \in 1..Len(kept) |-> NonWs(kept[i].n)])

OcrPageConfidence(words) ==
    LET kept == OcrKeptWords(words)
    IN  Frac(SumSeq([i \in 1..Len(kept) |-> kept[i].conf]), Len(kept))

Min(a, b) == IF a < b THEN a ELSE b

OcrScoreNotNormalised(total_confidence, page_count) ==
    IF page_count > 0 THEN FDivInt(total_confidence, page_count) ELSE FZero

OcrScore(total_confidence, page_count) ==
    IF page_count > 0 THEN FDivInt(FDivInt(total_confidence, page_count), 100)
    ELSE FZero

(* the number of scanned pages that yield text *)
OcrYielding(in) ==
    Len(SelectSeq(SubSeq(in.pages, 1, Min(Len(in.pages), OcrPageLimit)),
                  LAMBDA w : OcrKeptWords(w) # <<>>))

ExtractWithOcr(in) ==
    LET ocr_result == [text |-> <<>>, extraction_method |-> "ocr",
                       has_text |-> FALSE, has_images |-> TRUE,
                       confidence_score |-> FZero, errors |-> <<>>]
        scanned == SubSeq(in.pages, 1, Min(Len(in.pages), OcrPageLimit))
        yielding == SelectSeq(scanned, LAMBDA w : OcrKeptWords(w) # <<>>)
        text_parts == [i \in 1..Len(yielding) |-> OcrPageText(yielding[i])]
        total_confidence ==
            FSum([i \in 1..Len(yielding) |-> OcrPageConfidence(yielding[i])])
        page_count == Len(yielding)
    IN  IF in.outcome # "ok"
        THEN [ocr_result EXCEPT !.errors = <<OcrFailed>>]
        ELSE IF text_parts # <<>>
        THEN [ocr_result EXCEPT
                 !.text = Join(Newline, text_parts),
                 !.has_text = TRUE,
                 !.confidence_score = OcrScore(total_confidence, page_count)]
        ELSE [ocr_result EXCEPT !.errors = <<OcrUnreadable>>]

(***************************************************************************)
(* Whether a strategy call raises into extract_text_from_pdf: only an      *)
(* error that the strategy's own except clause does not contain.           *)
(***************************************************************************)
StrategyRaisesUncaught(in) == in.outcome # "ok"
StrategyRaises(in) == in.outcome = "escapes"

(***************************************************************************)
(* The tests of extract_text_from_pdf.                                     *)
(***************************************************************************)
StrategyWinsAbove101(text) == Truthy(text) /\ TLen(Strip(text)) > WinThreshold + 1
StrategyWins(text) == Truthy(text) /\ TLen(Strip(text)) > WinThreshold

Insufficient(text) == ~Truthy(text) \/ TLen(Strip(text)) < SufficiencyFloor

DowngradeKeepsScore(r) ==
    IF Insufficient(r.text)
    THEN [r EXCEPT !.errors = Append(@, InsufficientText)]
    ELSE r

Downgrade(r) ==
    IF Insufficient(r.text)
    THEN [r EXCEPT !.errors = Append(@, InsufficientText),
                   !.confidence_score = Frac(1, 10)]
    ELSE r

ExceptionResult(r, t) ==
    Update(r, [errors |-> <<StrategyError>>, processing_time |-> t,
               confidence_score |-> FZero])

(***************************************************************************)
(* extract_text_from_pdf, one step per statement group.                    *)
(***************************************************************************)
CascadeInit ==
    /\ pc = "call_pdfplumber"
    /\ pdf_pages \in 0..MaxPages
    /\ text_content = <<>>
    /\ result = InitialResult("doc.pdf")
    /\ called = <<>>
    /\ native_yield = [yielded |-> FALSE, len |-> 0, stripped |-> 0]

CascadeIdle ==
    /\ pc = "idle"
    /\ pdf_pages = 0
    /\ text_content = <<>>
    /\ result = InitialResult("doc.pdf")
    /\ called = <<>>
    /\ native_yield = [yielded |-> FALSE, len |-> 0, stripped |-> 0]

CallPdfplumber ==
    /\ pc = "call_pdfplumber"
    /\ \E in \in TextLayerInputs(pdf_pages) :
          /\ called' = Append(called, [strategy |-> "pdfplumber", outcome |-> in.outcome,
                                       yielding |-> 0,
                                       returned |-> ExtractWithPdfplumber(in)])
          /\ IF StrategyRaises(in)
             THEN /\ pc' = "handler"
                  /\ UNCHANGED <<text_content, native_yield>>
             ELSE /\ pc' = "check_pdfplumber"
                  /\ text_content' = ExtractWithPdfplumber(in)
                  /\ native_yield' =
                        [yielded |-> TRUE,
                         len |-> TLen(ExtractWithPdfplumber(in)),
                         stripped |-> TLen(Strip(ExtractWithPdfplumber(in)))]
    /\ UNCHANGED <<pdf_pages, result, batchVars, attrVars, reportVars, botVars, clientVars, handlerVars>>

CheckPdfplumber ==
    /\ pc = "check_pdfplumber"
    /\ IF StrategyWins(text_content)
       THEN /\ result' = Update(result,
                  [text |-> text_content, extraction_method |-> "pdfplumber",
                   has_text |-> TRUE, confidence_score |-> Frac(95, 100)])
            /\ pc' = "page_count"
       ELSE /\ pc' = "call_pymupdf"
            /\ UNCHANGED result
    /\ UNCHANGED <<pdf_pages, text_content, called, native_yield, batchVars, attrVars, reportVars, botVars, clientVars, handlerVars>>

CallPymupdf ==
    /\ pc = "call_pymupdf"
    /\ \E in \in TextLayerInputs(pdf_pages) :
          /\ called' = Append(called, [strategy |-> "pymupdf", outcome |-> in.outcome,
                                       yielding |-> 0,
                                       returned |-> ExtractWithPymupdf(in)])
          /\ IF StrategyRaises(in)
             THEN /\ pc' = "handler"
                  /\ UNCHANGED text_content
             ELSE /\ pc' = "check_pymupdf"
                  /\ text_content' = ExtractWithPymupdf(in)
    /\ UNCHANGED <<pdf_pages, result, native_yield, batchVars, attrVars, reportVars, botVars, clientVars, handlerVars>>

CheckPymupdf ==
    /\ pc = "check_pymupdf"
    /\ IF StrategyWins(text_content)
       THEN /\ result' = Update(result,
                  [text |-> text_content, extraction_method |-> "pymupdf",
                   has_text |-> TRUE, confidence_score |-> Frac(90, 100)])
            /\ pc' = "page_count"
       ELSE /\ pc' = "call_ocr"
            /\ UNCHANGED result
    /\ UNCHANGED <<pdf_pages, text_content, called, native_yield, batchVars, attrVars, reportVars, botVars, clientVars, handlerVars>>

CallOcr ==
    /\ pc = "call_ocr"
    /\ \E in \in OcrInputs(pdf_pages) :
          /\ called' = Append(called, [strategy |-> "ocr", outcome |-> in.outcome,
                                       yielding |-> OcrYielding(in),
                                       returned |-> ExtractWithOcr(in)])
          /\ IF StrategyRaises(in)
             THEN /\ pc' = "handler"
                  /\ UNCHANGED result
             ELSE /\ pc' = "page_count"
                  /\ result' = Update(result, ExtractWithOcr(in))
    /\ UNCHANGED <<pdf_pages, text_content, native_yield, batchVars, attrVars, reportVars, botVars, clientVars, handlerVars>>

GetPageCount ==
    /\ pc = "page_count"
    /\ \E opens \in BOOLEAN :
          result' = IF opens THEN [result EXCEPT !.page_count = pdf_pages]
                    ELSE result
    /\ pc' = "finish"
    /\ UNCHANGED <<pdf_pages, text_content, called, native_yield, batchVars, attrVars, reportVars, botVars, clientVars, handlerVars>>

Finish ==
    /\ pc = "finish"
    /\ \E t \in 0..MaxElapsed :
          result' = Downgrade([result EXCEPT !.processing_time = t])
    /\ pc' = "returned"
    /\ UNCHANGED <<pdf_pages, text_content, called, native_yield, batchVars, attrVars, reportVars, botVars, clientVars, handlerVars>>

HandleException ==
    /\ pc = "handler"
    /\ \E t \in 0..MaxElapsed : result' = ExceptionResult(result, t)
    /\ pc' = "returned"
    /\ UNCHANGED <<pdf_pages, text_content, called, native_yield, batchVars, attrVars, reportVars, botVars, clientVars, handlerVars>>


BatchIdle ==
    /\ bpc = "idle"
    /\ docs = <<>>
    /\ task = <<>>
    /\ future = <<>>
    /\ results = <<>>
    /\ cursor = 0
    /\ timed_out = {}
    /\ finished = <<>>

AttrIdle ==
    /\ apc = "idle"
    /\ schema = <<>>
    /\ pdf_result = <<>>
    /\ request = <<>>
    /\ reply = <<>>
    /\ response = <<>>
    /\ consolidated = <<>>

ReportIdle ==
    /\ rpc = "idle"
    /\ json_data_list = <<>>
    /\ lenient = FALSE
    /\ processing_summary = <<>>
    /\ report = <<>>
    /\ reordered = <<>>
    /\ second_report = <<>>

BotIdle ==
    /\ qpc = "idle"
    /\ context_data = <<>>
    /\ availability = <<>>

ClientsIdle ==
    /\ ipc = "idle"
    /\ environ = <<>>
    /\ clients = {}
    /\ init_error = ""

HandlerIdle ==
    /\ hpc = "idle"
    /\ pdf_results = <<>>
    /\ position = 0
    /\ invocations = <<>>
    /\ extracted_results = <<>>
    /\ handed = <<>>

Init == CascadeInit /\ BatchIdle /\ AttrIdle /\ ReportIdle /\ BotIdle /\ ClientsIdle /\ HandlerIdle
Next ==
    \/ CallPdfplumber
    \/ CheckPdfplumber
    \/ CallPymupdf
    \/ CheckPymupdf
    \/ CallOcr
    \/ GetPageCount
    \/ Finish
    \/ HandleException
Spec == Init /\ [][Next]_vars


(***************************************************************************)
(* process_multiple_pdfs.                                                  *)
(*                                                                         *)
(* A document of the batch is described by what its own processing does:   *)
(* the download raises or returns, and extract_text_from_pdf returns one   *)
(* of the results the cascade above produces; a document that "hangs"      *)
(* never finishes its processing.                                          *)
(***************************************************************************)
MaxDocs == 4
MaxWorkers == 3

Key(i) == <<"statements", i>>
Basename(key) == key[2]

DownloadError == "Failed to download PDF"
TimeoutError == ""

NativeResult(filename) ==
    Downgrade(Update(InitialResult(filename),
        [text |-> Join(Newline, <<NonWs(40), NonWs(60)>>),
         extraction_method |-> "pdfplumber", has_text |-> TRUE,
         confidence_score |-> Frac(95, 100)]))

UnreadableResult(filename) ==
    Downgrade(Update(InitialResult(filename),
        ExtractWithOcr([outcome |-> "ok", pages |-> << <<Blank>> >>])))

FailedResult(filename) == ExceptionResult(InitialResult(filename), 0)

Behaviours ==
    { [download |-> "raises", extraction |-> "none", hangs |-> FALSE],
      [download |-> "ok", extraction |-> "native", hangs |-> FALSE],
      [download |-> "ok", extraction |-> "failed", hangs |-> FALSE],
      [download |-> "ok", extraction |-> "unreadable", hangs |-> TRUE] }

ExtractTextFromPdf(doc, filename) ==
    CASE doc.extraction = "native" -> NativeResult(filename)
      [] doc.extraction = "unreadable" -> UnreadableResult(filename)
      [] OTHER -> FailedResult(filename)

(***************************************************************************)
(* The placeholder of a failed document (lines 342-349 and 367-374).       *)
(***************************************************************************)
PlaceholderResult(key, error) ==
    [filename |-> Basename(key), key |-> key, text |-> <<>>, error |-> error,
     processing_time |-> 0, confidence_score |-> FZero]

(***************************************************************************)
(* _process_single_pdf.                                                    *)
(***************************************************************************)
ProcessSinglePdfDropsError(i, doc) ==
    IF doc.download = "raises"
    THEN PlaceholderResult(Key(i), "")
    ELSE Update(ExtractTextFromPdf(doc, Basename(Key(i))), [key |-> Key(i)])

ProcessSinglePdf(i, doc) ==
    IF doc.download = "raises"
    THEN PlaceholderResult(Key(i), DownloadError)
    ELSE Update(ExtractTextFromPdf(doc, Basename(Key(i))), [key |-> Key(i)])

(***************************************************************************)
(* results.append                                                          *)
(***************************************************************************)
CollectedUnlessFailed(list, r) ==
    IF "error" \in DOMAIN r THEN list ELSE Append(list, r)

CollectedInFront(list, r) == <<r>> \o list

Collected(list, r) == Append(list, r)

Running == { i \in 1..Len(task) : task[i] = "running" }

(* ThreadPoolExecutor(max_workers=3): a thread of the pool is idle *)
WorkerAlwaysFree == TRUE

WorkerFree == Cardinality(Running) < MaxWorkers

(* for future in future_to_key: the dictionary is walked in the order of   *)
(* its insertions, which is the order of the submissions                   *)
NextFutureAsCompleted ==
    LET waiting == { i \in 1..Len(task) :
                       /\ task[i] = "done"
                       /\ \A j \in 1..Len(results) : results[j].key # Key(i) }
    IN IF waiting = {} THEN cursor
       ELSE CHOOSE i \in waiting : \A j \in waiting : j <= i

NextFuture == cursor

BatchInit ==
    /\ bpc = "submit"
    /\ docs \in UNION { [1..n -> Behaviours] : n \in 0..MaxDocs }
    /\ task = <<>>
    /\ future = <<>>
    /\ results = <<>>
    /\ cursor = 1
    /\ timed_out = {}
    /\ finished = <<>>

(* executor.submit for the next key, in the order of pdf_keys *)
Submit ==
    /\ bpc = "submit"
    /\ Len(task) < Len(docs)
    /\ task' = Append(task, "queued")
    /\ future' = Append(future, <<>>)
    /\ UNCHANGED <<bpc, docs, results, cursor, timed_out, finished, cascadeVars, attrVars, reportVars, botVars, clientVars, handlerVars>>

(* the for loop over pdf_keys is exhausted *)
SubmittedAll ==
    /\ bpc = "submit"
    /\ Len(task) = Len(docs)
    /\ bpc' = "collect"
    /\ UNCHANGED <<docs, task, future, results, cursor, timed_out, finished,
                 cascadeVars, attrVars, reportVars, botVars, clientVars, handlerVars>>

(* a free worker thread takes the oldest queued task *)
StartTask(i) ==
    /\ task[i] = "queued"
    /\ \A j \in 1..(i - 1) : task[j] # "queued"
    /\ WorkerFree
    /\ task' = [task EXCEPT ![i] = "running"]
    /\ UNCHANGED <<bpc, docs, future, results, cursor, timed_out, finished,
                 cascadeVars, attrVars, reportVars, botVars, clientVars, handlerVars>>

(* _process_single_pdf returns and the future holds its result *)
CompleteTask(i) ==
    /\ task[i] = "running"
    /\ ~docs[i].hangs
    /\ task' = [task EXCEPT ![i] = "done"]
    /\ future' = [future EXCEPT ![i] = <<ProcessSinglePdf(i, docs[i])>>]
    /\ finished' = Append(finished, i)
    /\ UNCHANGED <<bpc, docs, results, cursor, timed_out, cascadeVars, attrVars, reportVars, botVars, clientVars, handlerVars>>

(* future.result(timeout=300) returns *)
CollectResult ==
    /\ bpc = "collect"
    /\ cursor <= Len(docs)
    /\ task[NextFuture] = "done"
    /\ results' = Collected(results, future[NextFuture][1])
    /\ cursor' = cursor + 1
    /\ UNCHANGED <<bpc, docs, task, future, timed_out, finished, cascadeVars, attrVars, reportVars, botVars, clientVars, handlerVars>>

(* future.result(timeout=300) times out before the task is done *)
CollectTimeout ==
    /\ bpc = "collect"
    /\ cursor <= Len(docs)
    /\ task[NextFuture] # "done"
    /\ results' = Collected(results, PlaceholderResult(Key(NextFuture), TimeoutError))
    /\ timed_out' = timed_out \cup {NextFuture}
    /\ cursor' = cursor + 1
    /\ UNCHANGED <<bpc, docs, task, future, finished, cascadeVars, attrVars, reportVars, botVars, clientVars, handlerVars>>

(* the loop over the futures is exhausted: leave the with block *)
CollectedAll ==
    /\ bpc = "collect"
    /\ cursor > Len(docs)
    /\ bpc' = "shutdown"
    /\ UNCHANGED <<docs, task, future, results, cursor, timed_out, finished,
                 cascadeVars, attrVars, reportVars, botVars, clientVars, handlerVars>>

(* ThreadPoolExecutor.__exit__: shutdown(wait=True), then return results *)
Shutdown ==
    /\ bpc = "shutdown"
    /\ \A i \in 1..Len(task) : task[i] = "done"
    /\ bpc' = "returned"
    /\ UNCHANGED <<docs, task, future, results, cursor, timed_out, finished,
                 cascadeVars, attrVars, reportVars, botVars, clientVars, handlerVars>>

InitBatch == BatchInit /\ CascadeIdle /\ AttrIdle /\ ReportIdle /\ BotIdle /\ ClientsIdle /\ HandlerIdle
NextBatch ==
    \/ Submit
    \/ SubmittedAll
    \/ \E i \in 1..Len(task) : StartTask(i)
    \/ \E i \in 1..Len(task) : CompleteTask(i)
    \/ CollectResult
    \/ CollectTimeout
    \/ CollectedAll
    \/ Shutdown
SpecBatch == InitBatch /\ [][NextBatch]_vars

(* The threads of the pool and the calling thread keep running: a step     *)
(* that can be taken is eventually taken.                                  *)
SpecBatchLive == SpecBatch /\ WF_vars(NextBatch)

(***************************************************************************)
(* BedrockClient.extract_attributes and the extract-button handler.        *)
(*                                                                         *)
(* The model's answer is a sequence of JSON tokens: the braces, the comma, *)
(* a key with its colon, a number, a string, null, and "x" for any other   *)
(* character of prose.  Numbers that stand for scores are in hundredths    *)
(* (95 is 0.95).  A JSON value is a record [t, n, s, m]: its type, and     *)
(* the number, the string or the members that the type uses.               *)
(***************************************************************************)
MaxAttrs == 2
MaxTextLen == 3

Tok(k, s, n) == [k |-> k, s |-> s, n |-> n]
LBrace == Tok("{", "", 0)
RBrace == Tok("}", "", 0)
Comma == Tok(",", "", 0)
Prose == Tok("x", "", 0)
KeyTok(name) == Tok("key", name, 0)
NumTok(n) == Tok("num", "", n)
StrTok(str) == Tok("str", str, 0)
NullTok == Tok("null", "", 0)

JNum(n) == [t |-> "num", n |-> n, s |-> "", m |-> <<>>]
JStr(str) == [t |-> "str", n |-> 0, s |-> str, m |-> <<>>]
JNull == [t |-> "null", n |-> 0, s |-> "", m |-> <<>>]
JObj(members) == [t |-> "obj", n |-> 0, s |-> "", m |-> members]
NoValue == [t |-> "none", n |-> 0, s |-> "", m |-> <<>>]

Put(members, key, val) ==
    [k \in (DOMAIN members) \cup {key} |-> IF k = key THEN val ELSE members[k]]

(***************************************************************************)
(* json.loads                                                              *)
(***************************************************************************)
ParseFail == [ok |-> FALSE, val |-> NoValue, next |-> 0]

RECURSIVE ParseValue(_, _)
RECURSIVE ParseMembers(_, _, _)
ParseValue(text, i) ==
    IF i > Len(text) THEN ParseFail
    ELSE CASE text[i].k = "num" -> [ok |-> TRUE, val |-> JNum(text[i].n), next |-> i + 1]
           [] text[i].k = "str" -> [ok |-> TRUE, val |-> JStr(text[i].s), next |-> i + 1]
           [] text[i].k = "null" -> [ok |-> TRUE, val |-> JNull, next |-> i + 1]
           [] text[i].k = "{" ->
                IF i + 1 <= Len(text) /\ text[i + 1].k = "}"
                THEN [ok |-> TRUE, val |-> JObj(<<>>), next |-> i + 2]
                ELSE ParseMembers(text, i + 1, <<>>)
           [] OTHER -> ParseFail

ParseMembers(text, i, members) ==
    IF i > Len(text) \/ text[i].k # "key" THEN ParseFail
    ELSE LET v == ParseValue(text, i + 1)
         IN  IF ~v.ok \/ v.next > Len(text) THEN ParseFail
             ELSE IF text[v.next].k = "}"
             THEN [ok |-> TRUE, val |-> JObj(Put(members, text[i].s, v.val)),
                   next |-> v.next + 1]
             ELSE IF text[v.next].k = ","
             THEN ParseMembers(text, v.next + 1, Put(members, text[i].s, v.val))
             ELSE ParseFail

JsonLoads(text) ==
    LET v == ParseValue(text, 1)
    IN  IF v.ok /\ v.next = Len(text) + 1
        THEN [ok |-> TRUE, val |-> v.val]
        ELSE [ok |-> FALSE, val |-> NoValue]

(***************************************************************************)
(* str.find, str.rfind (0-based, -1 when absent) and slicing.              *)
(***************************************************************************)
Find(text, k) ==
    IF \E i \in 1..Len(text) : text[i].k = k
    THEN (CHOOSE i \in 1..Len(text) :
              /\ text[i].k = k
              /\ \A j \in 1..(i - 1) : text[j].k # k) - 1
    ELSE -1

RFindFirst(text, k) == Find(text, k)

RFind(text, k) ==
    IF \E i \in 1..Len(text) : text[i].k = k
    THEN (CHOOSE i \in 1..Len(text) :
              /\ text[i].k = k
              /\ \A j \in (i + 1)..Len(text) : text[j].k # k) - 1
    ELSE -1

Slice(text, from, to) == SubSeq(text, from + 1, to)

(***************************************************************************)
(* _extract_json_from_text                                                 *)
(***************************************************************************)
ErrorMarker(message) == JObj(Put(<<>>, "error", JStr(message)))

ExtractJsonFromText(text) ==
    LET start_idx == Find(text, "{")
        end_idx == RFind(text, "}") + 1
    IN  IF start_idx # -1 /\ end_idx # -1
        THEN LET parsed == JsonLoads(Slice(text, start_idx, end_idx))
             IN  IF parsed.ok THEN parsed.val
                 ELSE ErrorMarker("Failed to parse response")
        ELSE ErrorMarker("Failed to parse JSON response")

(***************************************************************************)
(* _get_empty_attributes_response                                          *)
(***************************************************************************)
EmptyAttribute ==
    JObj([k \in {"value", "confidence", "source_text"} |->
            CASE k = "value" -> JNull
              [] k = "confidence" -> JNum(0)
              [] OTHER -> JStr("")])

FailureMetadata ==
    JObj([k \in {"processing_date", "confidence_score", "extraction_method", "error"} |->
            CASE k = "processing_date" -> JStr("")
              [] k = "confidence_score" -> JNum(0)
              [] k = "extraction_method" -> JStr("bedrock_claude")
              [] OTHER -> JStr("Extraction failed")])

RECURSIVE EmptyAttributes(_)
EmptyAttributes(attributes_config) ==
    IF attributes_config = <<>> THEN <<>>
    ELSE Put(EmptyAttributes(SubSeq(attributes_config, 1, Len(attributes_config) - 1)),
             attributes_config[Len(attributes_config)].name, EmptyAttribute)

GetEmptyAttributesResponseRequiredOnly(attributes_config) ==
    JObj([k \in {"extraction_metadata", "extracted_attributes"} |->
            IF k = "extraction_metadata" THEN FailureMetadata
            ELSE JObj(EmptyAttributes(
                     SelectSeq(attributes_config, LAMBDA a : a.required)))])

GetEmptyAttributesResponse(attributes_config) ==
    JObj([k \in {"extraction_metadata", "extracted_attributes"} |->
            IF k = "extraction_metadata" THEN FailureMetadata
            ELSE JObj(EmptyAttributes(attributes_config))])

(***************************************************************************)
(* extract_attributes: the model call fails (ClientError, or any other     *)
(* exception up to reading the answer's text), or it returns text that is  *)
(* parsed in two stages.                                                   *)
(***************************************************************************)
(* lines 46-53: the document text that the user message carries is        *)
(* text[:8000]                                                             *)
TextLimit == 8000

RECURSIVE Prefix(_, _)
Prefix(text, k) ==
    IF k <= 0 \/ text = <<>> THEN <<>>
    ELSE IF Head(text).n <= k
         THEN <<Head(text)>> \o Prefix(Tail(text), k - Head(text).n)
         ELSE << [Head(text) EXCEPT !.n = k] >>

WholeText(text, k) == text

Truncated(text, k) == Prefix(text, k)

UserMessageText(text) == Truncated(text, TextLimit)

ExtractAttributes(attributes_config, answer) ==
    IF answer.outcome # "text"
    THEN GetEmptyAttributesResponse(attributes_config)
    ELSE LET parsed == JsonLoads(answer.text)
         IN  IF parsed.ok THEN parsed.val
             ELSE ExtractJsonFromText(answer.text)

(***************************************************************************)
(* The attribute schemas (config['attributes']) and the answers of the     *)
(* model.                                                                  *)
(***************************************************************************)
Catalogue ==
    { [name |-> "Total Revenue", required |-> TRUE],
      [name |-> "Report Year", required |-> TRUE],
      [name |-> "Notes", required |-> FALSE] }

Schemas ==
    UNION { { sq \in [1..n -> Catalogue] :
                \A i, j \in 1..n : i # j => sq[i].name # sq[j].name } :
            n \in 0..MaxAttrs }

RECURSIVE MembersText(_)
MembersText(members) ==
    IF members = <<>> THEN <<>>
    ELSE IF Len(members) = 1 THEN <<KeyTok(members[1][1])>> \o members[1][2]
    ELSE <<KeyTok(members[1][1])>> \o members[1][2] \o <<Comma>>
             \o MembersText(Tail(members))

ObjText(members) == <<LBrace>> \o MembersText(members) \o <<RBrace>>

BreakdownKeys == <<"text_clarity", "exact_match", "context_match", "format_validity">>

Scores ==
    { [confidence |-> 100, breakdown |-> <<100, 100, 100, 100>>],
      [confidence |-> 75, breakdown |-> <<100, 50, 100, 50>>],
      [confidence |-> 89, breakdown |-> <<100, 100, 100, 100>>],
      [confidence |-> 150, breakdown |-> <<100, 100, 100, 100>>],
      [confidence |-> 125, breakdown |-> <<200, 100, 100, 100>>],
      [confidence |-> 0, breakdown |-> <<>>] }

AttributeText(value, score) ==
    ObjText(<< <<"value", <<value>> >>,
               <<"confidence", <<NumTok(score.confidence)>> >> >>
            \o (IF score.breakdown = <<>> THEN <<>>
                ELSE << <<"confidence_breakdown",
                          ObjText([i \in 1..4 |->
                              <<BreakdownKeys[i], <<NumTok(score.breakdown[i])>> >>]) >> >>)
            \o << <<"source_text", <<StrTok("snippet")>> >> >>)

AttributeTexts ==
    { AttributeText(value, score) : value \in {NullTok, NumTok(1500)}, score \in Scores }

MetadataText ==
    ObjText(<< <<"processing_date", <<StrTok("2024-01-15")>> >>,
               <<"confidence_score", <<NumTok(95)>> >>,
               <<"extraction_method", <<StrTok("bedrock_claude")>> >> >>)

AnsweredNames == { <<"Total Revenue">>, <<"Total Revenue", "Report Year">> }

DocumentTexts ==
    UNION { { ObjText(<< <<"extraction_metadata", MetadataText>>,
                        <<"extracted_attributes",
                          ObjText([i \in 1..Len(names) |-> <<names[i], attrs[i]>>])>> >>) :
              attrs \in [1..Len(names) -> AttributeTexts] } :
            names \in AnsweredNames }

RawTokens == { LBrace, RBrace, Comma, Prose, KeyTok("a"), NumTok(1) }

AnswerTexts ==
    UNION { [1..n -> RawTokens] : n \in 0..MaxTextLen }
        \cup DocumentTexts
        \cup { <<Prose>> \o d \o <<Prose>> : d \in DocumentTexts }
        \cup { SubSeq(d, 1, Len(d) - 1) : d \in DocumentTexts }

Answers ==
    [outcome : {"text"}, text : AnswerTexts]
        \cup [outcome : {"client_error", "error"}, text : {<<>>}]

NoAnswer == [outcome |-> "none", text |-> <<>>]

(* a document with a long text layer: "Financial data: " and n letters *)
LongResult(filename, n) ==
    Update(NativeResult(filename),
           [text |-> <<NonWs(9)[1], Ws(1)[1], NonWs(5)[1], Ws(1)[1], NonWs(n)[1]>>])

PdfResults ==
    { Update(NativeResult(Basename(Key(1))), [key |-> Key(1)]),
      Update(LongResult(Basename(Key(1)), TextLimit - 16), [key |-> Key(1)]),
      Update(LongResult(Basename(Key(1)), TextLimit - 15), [key |-> Key(1)]),
      Update(LongResult(Basename(Key(1)), TextLimit + 2000), [key |-> Key(1)]),
      Update(FailedResult(Basename(Key(1))), [key |-> Key(1)]),
      PlaceholderResult(Key(1), DownloadError) }

(***************************************************************************)
(* dict.get on a parsed JSON object.                                       *)
(***************************************************************************)
GetOr(obj, key, default) ==
    IF key \in DOMAIN obj.m THEN obj.m[key] ELSE default

(***************************************************************************)
(* app.py, the loop body of the extract-button handler for one pdf_result. *)
(***************************************************************************)
AttrInit ==
    /\ apc = "start"
    /\ schema \in Schemas
    /\ pdf_result \in PdfResults
    /\ request = <<>>
    /\ reply = NoAnswer
    /\ response = NoValue
    /\ consolidated = <<>>

(* lines 154-163: a result without text is not sent to the model *)
SkipWithoutText ==
    /\ apc = "start"
    /\ ~Truthy(pdf_result.text)
    /\ consolidated' = Append(consolidated,
          Update(pdf_result,
              [extracted_attributes |-> JObj(<<>>),
               extraction_metadata |->
                  JObj([k \in {"processing_date", "confidence_score", "extraction_method"} |->
                          CASE k = "processing_date" -> JStr("")
                            [] k = "confidence_score" -> JNum(0)
                            [] OTHER ->
                                 IF "extraction_method" \in DOMAIN pdf_result
                                 THEN JStr(pdf_result.extraction_method)
                                 ELSE JStr("none")])]))
    /\ apc' = "saved"
    /\ UNCHANGED <<schema, pdf_result, request, reply, response, cascadeVars, batchVars, reportVars, botVars, clientVars, handlerVars>>

(* line 165: bedrock_client.extract_attributes(text, config['attributes']) *)
CallExtractAttributes ==
    /\ apc = "start"
    /\ Truthy(pdf_result.text)
    /\ request' = UserMessageText(pdf_result.text)
    /\ \E answer \in Answers :
          /\ reply' = answer
          /\ response' = ExtractAttributes(schema, answer)
    /\ apc' = "responded"
    /\ UNCHANGED <<schema, pdf_result, consolidated, cascadeVars, batchVars, reportVars, botVars, clientVars, handlerVars>>

(* lines 166-168: attributes.get(...) raises when the answer parsed to a   *)
(* JSON value that is not an object                                        *)
Consolidate ==
    /\ apc = "responded"
    /\ IF response.t = "obj"
       THEN /\ consolidated' = Append(consolidated,
                  Update(pdf_result,
                      [extracted_attributes |->
                          GetOr(response, "extracted_attributes", JObj(<<>>)),
                       extraction_metadata |->
                          GetOr(response, "extraction_metadata", JObj(<<>>))]))
            /\ apc' = "saved"
       ELSE /\ apc' = "crashed"
            /\ UNCHANGED consolidated
    /\ UNCHANGED <<schema, pdf_result, request, reply, response, cascadeVars, batchVars, reportVars, botVars, clientVars, handlerVars>>

InitAttr == AttrInit /\ CascadeIdle /\ BatchIdle /\ ReportIdle /\ BotIdle /\ ClientsIdle /\ HandlerIdle
NextAttr ==
    \/ SkipWithoutText
    \/ CallExtractAttributes
    \/ Consolidate
SpecAttr == InitAttr /\ [][NextAttr]_vars

(***************************************************************************)
(* excel_generator.py: generate_consolidated_excel_report on the list the  *)
(* handler consolidated.                                                   *)
(*                                                                         *)
(* The values of the financial attributes are whole numbers or null; the   *)
(* value of "Report Year" is a number, a string or null.  Confidences are  *)
(* in hundredths.  Sums, means and changes are exact fractions.            *)
(***************************************************************************)
MaxBatch == 3

ReportYear == "Report Year"

(* lines 260-265: the aggregation of each column of the yearly table *)
Aggregation ==
    [column \in {"Total Revenue", "Net Income", "Total Assets", "Total Liabilities"} |->
        IF column \in {"Total Revenue", "Net Income"} THEN "sum" ELSE "mean"]

(* the year strings of the model, in the order in which str compares them, *)
(* with what int() makes of each                                           *)
YearLiterals ==
    << [text |-> "2023", numeric |-> TRUE, int |-> 2023],
       [text |-> "FY2023", numeric |-> FALSE, int |-> 0] >>

Literal(text) == CHOOSE i \in 1..Len(YearLiterals) : YearLiterals[i].text = text

(* int(year), line 281 *)
IntOf(year) ==
    IF year.t = "num" THEN [ok |-> TRUE, int |-> year.n]
    ELSE [ok |-> YearLiterals[Literal(year.s)].numeric,
          int |-> YearLiterals[Literal(year.s)].int]

(***************************************************************************)
(* _prepare_consolidated_data: one row per document that has               *)
(* extracted_attributes, with the value of every attribute.  The columns   *)
(* PDF_Name, Processing_Date, Overall_Confidence and <name>_Confidence are *)
(* not read by the year-over-year sheet and are left out of the row.       *)
(***************************************************************************)
HasAttributes(pdf_data) == "extracted_attributes" \in DOMAIN pdf_data

RowOf(pdf_data) ==
    LET attributes == pdf_data.extracted_attributes.m
    IN  [attr_name \in DOMAIN attributes |->
            IF attributes[attr_name].t = "obj"
            THEN GetOr(attributes[attr_name], "value", JNull)
            ELSE attributes[attr_name]]

PrepareConsolidatedData(list) ==
    LET kept == SelectSeq(list, HasAttributes)
    IN  [i \in 1..Len(kept) |-> RowOf(kept[i])]

(***************************************************************************)
(* pandas: the columns of the frame, a cell (a missing key is NaN), the    *)
(* numbers of a column within a group.                                     *)
(***************************************************************************)
Columns(rows) == UNION { DOMAIN rows[i] : i \in 1..Len(rows) }

Cell(row, column) == IF column \in DOMAIN row THEN row[column] ELSE JNull

HasNumber(rows, column) ==
    \E i \in 1..Len(rows) : Cell(rows[i], column).t = "num"

GroupNumbers(rows, key, column) ==
    LET members == SelectSeq(rows, LAMBDA r :
                       Cell(r, ReportYear) = key /\ Cell(r, column).t = "num")
    IN  [i \in 1..Len(members) |-> members[i][column].n]

(* groupby('Report Year'): the distinct values that are not null *)
GroupKeys(rows) ==
    { Cell(rows[i], ReportYear) : i \in 1..Len(rows) } \ {JNull}

(* the sorted group keys: numbers ascending, before strings ascending *)
KeyLess(a, b) ==
    IF a.t = "num" /\ b.t = "num" THEN a.n < b.n
    ELSE IF a.t = "num" THEN TRUE
    ELSE IF b.t = "num" THEN FALSE
    ELSE Literal(a.s) < Literal(b.s)

RECURSIVE KeysByAppearance(_, _)
KeysByAppearance(rows, keys) ==
    IF rows = <<>> THEN <<>>
    ELSE LET key == Cell(Head(rows), ReportYear)
         IN  IF key \in keys
             THEN <<key>> \o KeysByAppearance(Tail(rows), keys \ {key})
             ELSE KeysByAppearance(Tail(rows), keys)

RECURSIVE SortedFrom(_)
SortedFrom(keys) ==
    IF keys = {} THEN <<>>
    ELSE LET least == CHOOSE a \in keys : \A b \in keys \ {a} : KeyLess(a, b)
         IN  <<least>> \o SortedFrom(keys \ {least})

GroupOrderUnsorted(rows) == KeysByAppearance(rows, GroupKeys(rows))

GroupOrder(rows) == SortedFrom(GroupKeys(rows))

(* 'sum' of a group is 0 when it has no number; 'mean' is NaN, which       *)
(* fillna(0) of line 265 turns into 0                                      *)
Aggregate(rows, key, column) ==
    LET numbers == GroupNumbers(rows, key, column)
    IN  IF Aggregation[column] = "sum" THEN Frac(SumSeq(numbers), 1)
        ELSE IF numbers = <<>> THEN FZero
        ELSE Frac(SumSeq(numbers), Len(numbers))

YearlyData(rows) ==
    LET keys == GroupOrder(rows)
    IN  [i \in 1..Len(keys) |->
            [year |-> keys[i],
             data |-> [column \in DOMAIN Aggregation |->
                          Aggregate(rows, keys[i], column)]]]

(***************************************************************************)
(* pct_change().fillna(0), line 272: current / previous - 1; 0/0 is NaN    *)
(* and becomes 0, and x/0 is infinite.                                     *)
(***************************************************************************)
Change(value) == [infinite |-> FALSE, value |-> value]
Infinite == [infinite |-> TRUE, value |-> FZero]

PctChangeOfCurrent(previous, current) ==
    IF current.n = 0
    THEN IF previous.n = 0 THEN Change(FZero) ELSE Infinite
    ELSE Change(Frac(current.n * previous.d - previous.n * current.d,
                     current.n * previous.d))

PctChange(previous, current) ==
    IF previous.n = 0
    THEN IF current.n = 0 THEN Change(FZero) ELSE Infinite
    ELSE Change(Frac(current.n * previous.d - previous.n * current.d,
                     previous.n * current.d))

YoyChanges(yearly_data) ==
    [i \in 1..Len(yearly_data) |->
        [year |-> yearly_data[i].year,
         data |-> [column \in DOMAIN Aggregation |->
                      IF i = 1 THEN Change(FZero)
                      ELSE PctChange(yearly_data[i - 1].data[column],
                                     yearly_data[i].data[column])]]]

(***************************************************************************)
(* The errors that end generate_consolidated_excel_report (it re-raises    *)
(* them, lines 55-57, and no workbook is returned).                        *)
(***************************************************************************)
MixedYearsError == "TypeError: '<=' not supported between instances of 'str' and 'int'"
MissingColumnError == "KeyError: Column(s) do not exist"
NoNumericError == "DataError: No numeric types to aggregate"
YearLiteralError == "ValueError: invalid literal for int()"
InfiniteError == "TypeError: NAN/INF not supported in write_number()"

(***************************************************************************)
(* _create_summary_dashboard, lines 168-174: years.min() and years.max()   *)
(* compare the values of the column, which raises when it holds both       *)
(* numbers and strings.                                                    *)
(***************************************************************************)
SummaryDashboardError(rows) ==
    IF /\ HasNumber(rows, ReportYear)
       /\ \E i \in 1..Len(rows) : Cell(rows[i], ReportYear).t = "str"
    THEN MixedYearsError
    ELSE ""

(***************************************************************************)
(* _create_yoy_analysis_sheet.  `lenient` tells whether the installed      *)
(* pandas aggregates a column that holds no number at all (it is of dtype  *)
(* object) or raises on it.                                                *)
(***************************************************************************)
Sheet(status, error, yearly, growth) ==
    [status |-> status, error |-> error, yearly |-> yearly, growth |-> growth]

CreateYoyAnalysisSheet(rows, pandas_lenient) ==
    LET yearly_data == YearlyData(rows)
        yoy_changes == YoyChanges(yearly_data)
        years == [i \in 1..Len(yearly_data) |-> IntOf(yearly_data[i].year)]
    IN  IF rows = <<>> \/ ReportYear \notin Columns(rows)
        THEN Sheet("absent", "", <<>>, <<>>)
        ELSE IF ~(DOMAIN Aggregation \subseteq Columns(rows))
        THEN Sheet("raised", MissingColumnError, <<>>, <<>>)
        ELSE IF ~pandas_lenient
                /\ \E column \in DOMAIN Aggregation : ~HasNumber(rows, column)
        THEN Sheet("raised", NoNumericError, <<>>, <<>>)
        ELSE IF Len(yearly_data) < 2
        THEN Sheet("insufficient", "", <<>>, <<>>)
        ELSE IF \E i \in 1..Len(years) : ~years[i].ok
        THEN Sheet("raised", YearLiteralError, <<>>, <<>>)
        ELSE IF \E i \in 2..Len(yoy_changes) : \E column \in DOMAIN Aggregation :
                    yoy_changes[i].data[column].infinite
        THEN Sheet("raised", InfiniteError, <<>>, <<>>)
        ELSE Sheet("tables", "",
                 [i \in 1..Len(yearly_data) |->
                     [year |-> years[i].int, data |-> yearly_data[i].data]],
                 [i \in 1..(Len(yoy_changes) - 1) |->
                     [year |-> years[i + 1].int,
                      data |-> [column \in DOMAIN Aggregation |->
                                   yoy_changes[i + 1].data[column].value]]])

(***************************************************************************)
(* _create_data_quality_report, lines 470-509: the statistics of every     *)
(* attribute name that has an entry which is a dictionary.  The order of   *)
(* the rows on the sheet is not part of the statistics.                    *)
(***************************************************************************)
AttributesOf(pdf_data) ==
    IF HasAttributes(pdf_data) THEN pdf_data.extracted_attributes.m ELSE <<>>

ConfidenceData(list, attr_name) ==
    LET with == SelectSeq(list, LAMBDA d :
                    /\ attr_name \in DOMAIN AttributesOf(d)
                    /\ AttributesOf(d)[attr_name].t = "obj")
    IN  [i \in 1..Len(with) |->
            [confidence |-> GetOr(AttributesOf(with[i])[attr_name],
                                  "confidence", JNum(0)).n,
             breakdown |-> GetOr(AttributesOf(with[i])[attr_name],
                                 "confidence_breakdown", JObj(<<>>)).m]]

(* a division: Python raises ZeroDivisionError when the divisor is 0 *)
ZeroDivisionError == "division by zero"

Raised == [n |-> 0, d |-> 0]

Divide(total, count) == IF count = 0 THEN Raised ELSE Frac(total, count)

(* lines 506-509: sum(scores) / len(scores) if scores else 0 *)
Average(numbers) ==
    IF numbers = <<>> THEN FZero ELSE Divide(SumSeq(numbers), Len(numbers))

Least(numbers) ==
    CHOOSE x \in { numbers[i] : i \in 1..Len(numbers) } :
        \A i \in 1..Len(numbers) : x <= numbers[i]

Greatest(numbers) ==
    CHOOSE x \in { numbers[i] : i \in 1..Len(numbers) } :
        \A i \in 1..Len(numbers) : x >= numbers[i]

FactorScores(confidence_data, factor) ==
    LET broken_down == SelectSeq(confidence_data, LAMBDA item : DOMAIN item.breakdown # {})
    IN  [i \in 1..Len(broken_down) |->
            IF factor \in DOMAIN broken_down[i].breakdown
            THEN broken_down[i].breakdown[factor].n ELSE 0]

(* lines 492-493: an attribute without collected entries gets no row *)
RowForEveryName(confidence_data) == TRUE

HasConfidenceData(confidence_data) == confidence_data # <<>>

Reported(list) ==
    LET names == UNION { DOMAIN AttributesOf(list[i]) : i \in 1..Len(list) }
    IN  { name \in names : HasConfidenceData(ConfidenceData(list, name)) }

AttributeConfidence(list) ==
    [name \in Reported(list) |->
            LET confidence_data == ConfidenceData(list, name)
                confidences == [i \in 1..Len(confidence_data) |->
                                   confidence_data[i].confidence]
            IN  [avg_confidence |-> Divide(SumSeq(confidences), Len(confidences)),
                 min_confidence |-> Least(confidences),
                 max_confidence |-> Greatest(confidences),
                 avg_factors |-> [i \in 1..4 |->
                     Average(FactorScores(confidence_data, BreakdownKeys[i]))]]]

(* lines 385-398: the quality summary at the head of the sheet; the       *)
(* scores are in hundredths, the success rate in percent                   *)
ConfidenceScore(pdf) ==
    GetOr(pdf.extraction_metadata, "confidence_score", JNum(0)).n

QualitySummary(list) ==
    LET total_pdfs == Len(list)
        successful_extractions ==
            Len(SelectSeq(list, LAMBDA pdf : ConfidenceScore(pdf) > 50))
        scores == [i \in 1..Len(list) |-> ConfidenceScore(list[i])]
    IN  [total_pdfs |-> total_pdfs,
         successful_extractions |-> successful_extractions,
         success_rate |-> IF total_pdfs > 0
                          THEN Divide(successful_extractions * 100, total_pdfs)
                          ELSE FZero,
         avg_confidence |-> IF total_pdfs > 0
                            THEN Divide(SumSeq(scores), total_pdfs)
                            ELSE FZero]

NoQuality == [total_pdfs |-> 0, successful_extractions |-> 0,
              success_rate |-> FZero, avg_confidence |-> FZero]

(* the first division of the sheet that raises, if any *)
DataQualityReportError(list) ==
    LET quality == QualitySummary(list)
    IN  IF \/ Raised \in {quality.success_rate, quality.avg_confidence}
           \/ \E name \in Reported(list) : ConfidenceData(list, name) = <<>>
        THEN ZeroDivisionError
        ELSE ""

(***************************************************************************)
(* generate_consolidated_excel_report, lines 28-57: the sheets are built   *)
(* in turn and the first error ends the call.                              *)
(***************************************************************************)
FailedReport(error) ==
    [error |-> error, yoy |-> Sheet("absent", "", <<>>, <<>>),
     quality |-> NoQuality, attribute_confidence |-> <<>>]

GenerateConsolidatedExcelReport(list, pandas_lenient) ==
    LET consolidated_data == PrepareConsolidatedData(list)
        yoy == CreateYoyAnalysisSheet(consolidated_data, pandas_lenient)
    IN  IF SummaryDashboardError(consolidated_data) # ""
        THEN FailedReport(SummaryDashboardError(consolidated_data))
        ELSE IF yoy.error # "" THEN FailedReport(yoy.error)
        ELSE IF DataQualityReportError(list) # ""
        THEN FailedReport(DataQualityReportError(list))
        ELSE [error |-> "", yoy |-> yoy, quality |-> QualitySummary(list),
              attribute_confidence |-> AttributeConfidence(list)]

(* output_handler.py lines 185-200: the processing summary of the batch,   *)
(* every document's JSON having been saved                                 *)
ProcessingSummary(list) ==
    LET successful_extractions ==
            Len(SelectSeq(list, LAMBDA pdf : ConfidenceScore(pdf) > 50))
        total_confidence ==
            SumSeq([i \in 1..Len(list) |-> ConfidenceScore(list[i])])
    IN  [successful_extractions |-> successful_extractions,
         failed_extractions |-> Len(list) - successful_extractions,
         average_confidence |-> IF list # <<>>
                                THEN Divide(total_confidence, Len(list))
                                ELSE FZero]

(***************************************************************************)
(* The documents of a batch, as the handler consolidates them.             *)
(***************************************************************************)
ReportSchema ==
    << [name |-> "Total Revenue", required |-> TRUE],
       [name |-> "Net Income", required |-> TRUE],
       [name |-> "Total Assets", required |-> FALSE],
       [name |-> "Total Liabilities", required |-> FALSE],
       [name |-> ReportYear, required |-> TRUE] >>

Extracted(value, confidence) ==
    JObj([k \in {"value", "confidence", "confidence_breakdown"} |->
            CASE k = "value" -> value
              [] k = "confidence" -> JNum(confidence)
              [] OTHER -> JObj([f \in { BreakdownKeys[i] : i \in 1..4 } |->
                                   JNum(confidence)])])

Scaled(amount, num, den) ==
    IF amount.t = "num" THEN JNum((amount.n * num) \div den) ELSE amount

Document(attributes, score) ==
    [filename |-> "statement.pdf", extracted_attributes |-> attributes,
     extraction_metadata |-> JObj(Put(<<>>, "confidence_score", JNum(score)))]

Statement(year, amount, confidence) ==
    Document(
        JObj([name \in {ReportYear} \cup DOMAIN Aggregation |->
                Extracted(CASE name = ReportYear -> year
                            [] name = "Total Revenue" -> amount
                            [] name = "Net Income" -> Scaled(amount, 1, 10)
                            [] name = "Total Assets" -> Scaled(amount, 2, 1)
                            [] OTHER -> Scaled(amount, 1, 2),
                          confidence)]),
        confidence)

(* the answer could not be had: every attribute of the schema is null *)
FallbackDocument ==
    Document(GetEmptyAttributesResponse(ReportSchema).m["extracted_attributes"], 0)

(* the document had no text and was not sent to the model *)
SkippedDocument == Document(JObj(<<>>), 0)

(* a document extracted under a schema without the balance-sheet fields *)
NarrowDocument ==
    Document(JObj([name \in {ReportYear, "Total Revenue"} |->
                      Extracted(IF name = ReportYear THEN JNum(2021) ELSE JNum(40), 90)]),
             90)

(* the model answered with bare values instead of objects; line 144-146  *)
(* of _prepare_consolidated_data keeps them as they are                    *)
FlatDocument ==
    Document(JObj([name \in {ReportYear} \cup DOMAIN Aggregation |->
                      IF name = ReportYear THEN JNum(2022) ELSE JNum(10)]),
             90)

Documents ==
    { Statement(JNum(2021), JNum(100), 90),
      Statement(JNum(2022), JNum(150), 80),
      Statement(JNum(2023), JNum(120), 70),
      Statement(JNum(2022), JNum(0), 60),
      Statement(JNum(2021), JNull, 50),
      Statement(JStr("2023"), JNum(30), 90),
      Statement(JStr("FY2023"), JNum(30), 90),
      FallbackDocument, SkippedDocument, NarrowDocument, FlatDocument }

Batches == UNION { [1..n -> Documents] : n \in 0..MaxBatch }

NoReport == [error |-> "", yoy |-> Sheet("none", "", <<>>, <<>>),
             quality |-> NoQuality, attribute_confidence |-> <<>>]

ReportInit ==
    /\ rpc = "start"
    /\ json_data_list \in Batches
    /\ lenient \in BOOLEAN
    /\ processing_summary = <<>>
    /\ report = NoReport
    /\ reordered = <<>>
    /\ second_report = NoReport

(* output_handler.py lines 195-209: the processing summary, then the      *)
(* report of the batch (line 117)                                          *)
GenerateReport ==
    /\ rpc = "start"
    /\ processing_summary' = ProcessingSummary(json_data_list)
    /\ report' = GenerateConsolidatedExcelReport(json_data_list, lenient)
    /\ rpc' = "generated"
    /\ UNCHANGED <<json_data_list, lenient, reordered, second_report,
                   cascadeVars, batchVars, attrVars, botVars, clientVars, handlerVars>>

(* the report of the same documents once more, in any order *)
GenerateAgain ==
    /\ rpc = "generated"
    /\ \E p \in Permutations(1..Len(json_data_list)) :
          /\ reordered' = [i \in 1..Len(json_data_list) |-> json_data_list[p[i]]]
          /\ second_report' = GenerateConsolidatedExcelReport(reordered', lenient)
    /\ rpc' = "regenerated"
    /\ UNCHANGED <<json_data_list, lenient, processing_summary, report,
                   cascadeVars, batchVars, attrVars, botVars, clientVars, handlerVars>>

InitReport == ReportInit /\ CascadeIdle /\ BatchIdle /\ AttrIdle /\ BotIdle /\ ClientsIdle /\ HandlerIdle
NextReport ==
    \/ GenerateReport
    \/ GenerateAgain
SpecReport == InitReport /\ [][NextReport]_vars

(***************************************************************************)
(* bot_interface.py, _check_data_availability: what the consolidated data  *)
(* of the context hold and the band of their average confidence.  The      *)
(* confidences are in hundredths.                                          *)
(***************************************************************************)
MaxItems == 3

HighQuality == 80
MediumQuality == 60

(* lines 282-287 *)
DataQualityAbove(avg_confidence) ==
    IF ~FLe(avg_confidence, Frac(HighQuality, 1)) THEN "high"
    ELSE IF ~FLe(avg_confidence, Frac(MediumQuality, 1)) THEN "medium"
    ELSE "low"

DataQuality(avg_confidence) ==
    IF FLe(Frac(HighQuality, 1), avg_confidence) THEN "high"
    ELSE IF FLe(Frac(MediumQuality, 1), avg_confidence) THEN "medium"
    ELSE "low"

(* lines 259-266: the confidence of every entry that is a dictionary with  *)
(* a "confidence" key, in the order of the items                           *)
RECURSIVE EntryScores(_, _)
EntryScores(attributes, names) ==
    IF names = {} THEN <<>>
    ELSE LET name == CHOOSE x \in names : TRUE
             attr_data == attributes[name]
         IN  (IF attr_data.t = "obj" /\ "confidence" \in DOMAIN attr_data.m
              THEN <<attr_data.m["confidence"]>> ELSE <<>>)
                \o EntryScores(attributes, names \ {name})

RECURSIVE ConfidenceScores(_)
ConfidenceScores(consolidated_data) ==
    IF consolidated_data = <<>> THEN <<>>
    ELSE EntryScores(AttributesOf(Head(consolidated_data)),
                     DOMAIN AttributesOf(Head(consolidated_data)))
            \o ConfidenceScores(Tail(consolidated_data))

AllAttributes(consolidated_data) ==
    UNION { DOMAIN AttributesOf(consolidated_data[i]) :
              i \in 1..Len(consolidated_data) }

(* lines 268-277 *)
Indicators ==
    [has_revenue_data |-> {"Total Revenue", "Gross Profit", "Revenue"},
     has_profitability_data |-> {"Net Income", "EBITDA", "Operating Income"},
     has_balance_sheet_data |->
         {"Total Assets", "Total Liabilities", "Shareholders Equity"},
     has_cash_flow_data |->
         {"Operating Cash Flow", "Free Cash Flow", "Cash Flow"}]

SumTypeError == "unsupported operand type(s) for +: 'int' and 'NoneType'"

(* lines 231-238 *)
UnknownAvailability ==
    [has |-> [category \in DOMAIN Indicators |-> FALSE],
     has_multi_period_data |-> FALSE, data_quality |-> "unknown", error |-> ""]

(* lines 240-293 *)
CheckedAvailability(consolidated_data) ==
    LET confidence_scores == ConfidenceScores(consolidated_data)
        numbers == [i \in 1..Len(confidence_scores) |-> confidence_scores[i].n]
        has == [category \in DOMAIN Indicators |->
                   Indicators[category] \cap AllAttributes(consolidated_data) # {}]
    IN  IF consolidated_data = <<>> THEN UnknownAvailability
        ELSE [has |-> has,
              has_multi_period_data |-> Len(consolidated_data) > 1,
              data_quality |->
                  IF confidence_scores = <<>>
                     \/ \E i \in 1..Len(confidence_scores) :
                           confidence_scores[i].t # "num"
                  THEN "unknown"
                  ELSE DataQuality(Divide(SumSeq(numbers), Len(numbers))),
              error |->
                  IF \E i \in 1..Len(confidence_scores) :
                        confidence_scores[i].t # "num"
                  THEN SumTypeError ELSE ""]

(* the items of the context: documents of one attribute with a confidence, *)
(* and documents without entries that carry one                            *)
ItemScores == {0, 59, 60, 70, 79, 80, 90, 100}

Scored(confidence) ==
    Document(JObj(Put(<<>>, "Total Revenue", Extracted(JNum(100), confidence))),
             confidence)

UnscoredItem ==
    Document(JObj(Put(<<>>, "Net Income",
                      JObj(Put(Put(<<>>, "value", JNum(10)), "confidence", JNull)))),
             0)

BareItem == [filename |-> "statement.pdf"]

ContextItems ==
    { Scored(c) : c \in ItemScores }
        \cup {SkippedDocument, FlatDocument, UnscoredItem, BareItem}

Contexts == UNION { [1..n -> ContextItems] : n \in 0..MaxItems }

BotInit ==
    /\ qpc = "start"
    /\ context_data \in Contexts
    /\ availability = UnknownAvailability

CheckDataAvailability ==
    /\ qpc = "start"
    /\ availability' = CheckedAvailability(context_data)
    /\ qpc' = "checked"
    /\ UNCHANGED <<context_data, cascadeVars, batchVars, attrVars, reportVars, clientVars, handlerVars>>

InitBot == BotInit /\ CascadeIdle /\ BatchIdle /\ AttrIdle /\ ReportIdle /\ ClientsIdle /\ HandlerIdle
NextBot ==
    \/ CheckDataAvailability
SpecBot == InitBot /\ [][NextBot]_vars

(***************************************************************************)
(* app.py, initialize_clients, with env_config.py and the constructors of  *)
(* the four clients.  A variable of the environment is unset, set to the   *)
(* empty string or set to a name; os.getenv gives None for an unset one    *)
(* and both None and the empty string are falsy.                           *)
(***************************************************************************)
Unset == [set |-> FALSE, value |-> ""]
Value(v) == [set |-> TRUE, value |-> v]

Getenv(env, name) == env[name]

Falsy(v) == ~v.set \/ v.value = ""

S3Variables == {"S3_BUCKET_NAME", "S3_INPUT_BUCKET", "S3_OUTPUT_BUCKET"}

Environments ==
    [S3Variables \cup {"AWS_REGION"} -> {Unset, Value(""), Value("name")}]

(* env_config.py lines 10-18: load_environment sets the default region *)
LoadEnvironment(env) ==
    IF Falsy(Getenv(env, "AWS_REGION"))
    THEN [env EXCEPT !["AWS_REGION"] = Value("us-east-1")]
    ELSE env

(* env_config.py lines 77-88 *)
GetS3Config(env) ==
    [bucket_name |-> Getenv(env, "S3_BUCKET_NAME"),
     input_bucket |-> Getenv(env, "S3_INPUT_BUCKET"),
     output_bucket |-> Getenv(env, "S3_OUTPUT_BUCKET"),
     use_single_bucket |-> ~Falsy(Getenv(env, "S3_BUCKET_NAME"))]

(* app.py lines 34-50 *)
MissingVars(env) ==
    (IF GetS3Config(env).use_single_bucket
     THEN { name \in {"S3_BUCKET_NAME"} : Falsy(Getenv(env, name)) }
     ELSE { name \in {"S3_INPUT_BUCKET", "S3_OUTPUT_BUCKET"} :
              Falsy(Getenv(env, name)) })
        \cup { name \in {"AWS_REGION"} : Falsy(Getenv(env, name)) }

MissingVariables == "Missing required environment variables"
OutputBucketRequired == "S3_OUTPUT_BUCKET environment variable is required"
ClientError == "Error initializing clients"

(* output_handler.py lines 18-21 *)
OutputBucketMissing(env) == Falsy(Getenv(env, "S3_OUTPUT_BUCKET"))

AllClients == {"pdf_processor", "bedrock_client", "output_handler", "bot_interface"}

ClientsInit ==
    /\ ipc = "import"
    /\ environ \in Environments
    /\ clients = {}
    /\ init_error = ""

(* app.py line 16: importing env_config runs load_environment *)
ImportEnvConfig ==
    /\ ipc = "import"
    /\ environ' = LoadEnvironment(environ)
    /\ ipc' = "check"
    /\ UNCHANGED <<clients, init_error, cascadeVars, batchVars, attrVars, reportVars, botVars, handlerVars>>

(* app.py lines 32-72: the check of the variables of the active mode *)
CheckVariables ==
    /\ ipc = "check"
    /\ environ' = LoadEnvironment(environ)
    /\ IF MissingVars(environ') # {}
       THEN ipc' = "stopped" /\ init_error' = MissingVariables
       ELSE ipc' = "pdf_processor" /\ UNCHANGED init_error
    /\ UNCHANGED <<clients, cascadeVars, batchVars, attrVars, reportVars, botVars, handlerVars>>

(* app.py line 74, pdf_processor.py lines 25-39: the boto3 session and     *)
(* client are created, or that raises                                      *)
ConstructPdfProcessor ==
    /\ ipc = "pdf_processor"
    /\ \E created \in BOOLEAN :
          IF created
          THEN /\ clients' = clients \cup {"pdf_processor"}
               /\ ipc' = "bedrock_client"
               /\ UNCHANGED init_error
          ELSE /\ clients' = {}
               /\ ipc' = "stopped"
               /\ init_error' = ClientError
    /\ UNCHANGED <<environ, cascadeVars, batchVars, attrVars, reportVars, botVars, handlerVars>>

(* app.py line 75, bedrock_client.py lines 13-28 *)
ConstructBedrockClient ==
    /\ ipc = "bedrock_client"
    /\ \E created \in BOOLEAN :
          IF created
          THEN /\ clients' = clients \cup {"bedrock_client"}
               /\ ipc' = "output_handler"
               /\ UNCHANGED init_error
          ELSE /\ clients' = {}
               /\ ipc' = "stopped"
               /\ init_error' = ClientError
    /\ UNCHANGED <<environ, cascadeVars, batchVars, attrVars, reportVars, botVars, handlerVars>>

(* app.py line 76, output_handler.py lines 16-36 *)
ConstructOutputHandler ==
    /\ ipc = "output_handler"
    /\ IF OutputBucketMissing(environ)
       THEN /\ clients' = {}
            /\ ipc' = "stopped"
            /\ init_error' = OutputBucketRequired
       ELSE \E created \in BOOLEAN :
               IF created
               THEN /\ clients' = clients \cup {"output_handler"}
                    /\ ipc' = "bot_interface"
                    /\ UNCHANGED init_error
               ELSE /\ clients' = {}
                    /\ ipc' = "stopped"
                    /\ init_error' = ClientError
    /\ UNCHANGED <<environ, cascadeVars, batchVars, attrVars, reportVars, botVars, handlerVars>>

(* app.py lines 77-79, bot_interface.py lines 12-16 *)
ConstructBotInterface ==
    /\ ipc = "bot_interface"
    /\ clients' = clients \cup {"bot_interface"}
    /\ ipc' = "initialized"
    /\ UNCHANGED <<environ, init_error, cascadeVars, batchVars, attrVars, reportVars, botVars, handlerVars>>

(* app.py lines 98-99 and 142: the page goes on to the extraction only     *)
(* with all four clients                                                   *)
StartExtraction ==
    /\ ipc = "initialized"
    /\ clients = AllClients
    /\ ipc' = "extracting"
    /\ UNCHANGED <<environ, clients, init_error, cascadeVars, batchVars, attrVars, reportVars, botVars, handlerVars>>

InitClients == ClientsInit /\ CascadeIdle /\ BatchIdle /\ AttrIdle /\ ReportIdle /\ BotIdle /\ HandlerIdle
NextClients ==
    \/ ImportEnvConfig
    \/ CheckVariables
    \/ ConstructPdfProcessor
    \/ ConstructBedrockClient
    \/ ConstructOutputHandler
    \/ ConstructBotInterface
    \/ StartExtraction
SpecClients == InitClients /\ [][NextClients]_vars

(***************************************************************************)
(* app.py lines 145-171: the whole loop of the extract-button handler over *)
(* the results of process_multiple_pdfs, one for each selected document,   *)
(* and the call that saves the outputs.                                    *)
(***************************************************************************)
MaxSelected == 3

(* lines 154-163 *)
SkippedEntry(result_of_pdf) ==
    Update(result_of_pdf,
        [extracted_attributes |-> JObj(<<>>),
         extraction_metadata |->
            JObj([k \in {"processing_date", "confidence_score", "extraction_method"} |->
                    CASE k = "processing_date" -> JStr("")
                      [] k = "confidence_score" -> JNum(0)
                      [] OTHER ->
                           IF "extraction_method" \in DOMAIN result_of_pdf
                           THEN JStr(result_of_pdf.extraction_method)
                           ELSE JStr("none")])])

(* lines 166-168 *)
ExtractedEntry(result_of_pdf, attributes) ==
    Update(result_of_pdf,
        [extracted_attributes |-> GetOr(attributes, "extracted_attributes", JObj(<<>>)),
         extraction_metadata |-> GetOr(attributes, "extraction_metadata", JObj(<<>>))])

(* the results of a batch: a document with text, one that OCR could not   *)
(* read, one whose extraction failed and the placeholder of a failed       *)
(* download                                                                *)
BatchResults ==
    { Update(NativeResult(Basename(Key(1))), [key |-> Key(1)]),
      Update(UnreadableResult(Basename(Key(1))), [key |-> Key(1)]),
      Update(FailedResult(Basename(Key(1))), [key |-> Key(1)]),
      PlaceholderResult(Key(1), DownloadError) }

(* the answers of the model: a document of the requested shape, a failed   *)
(* call, prose, JSON that is not an object, and an object whose            *)
(* extracted_attributes is null                                            *)
WellFormedAnswer ==
    ObjText(<< <<"extraction_metadata", MetadataText>>,
               <<"extracted_attributes",
                 ObjText(<< <<"Total Revenue",
                              AttributeText(NumTok(1500), [confidence |-> 100,
                                  breakdown |-> <<100, 100, 100, 100>>])>> >>)>> >>)

NullAttributesAnswer ==
    ObjText(<< <<"extraction_metadata", MetadataText>>,
               <<"extracted_attributes", <<NullTok>> >> >>)

HandlerAnswers ==
    [outcome : {"text"},
     text : {WellFormedAnswer, NullAttributesAnswer, <<Prose>>, <<NumTok(1)>>}]
        \cup [outcome : {"client_error"}, text : {<<>>}]

HandlerInit ==
    /\ hpc = "loop"
    /\ pdf_results \in UNION { [1..n -> BatchResults] : n \in 1..MaxSelected }
    /\ position = 1
    /\ invocations = <<>>
    /\ extracted_results = <<>>
    /\ handed = <<>>

(* lines 152-163: a result without text is not sent to the extractor *)
SkipResult ==
    /\ hpc = "loop"
    /\ position <= Len(pdf_results)
    /\ ~Truthy(pdf_results[position].text)
    /\ extracted_results' =
          Append(extracted_results, SkippedEntry(pdf_results[position]))
    /\ position' = position + 1
    /\ UNCHANGED <<hpc, pdf_results, invocations, handed,
                   cascadeVars, batchVars, attrVars, reportVars, botVars, clientVars>>

(* lines 165-168: the extractor is called; attributes.get raises when it   *)
(* returned a JSON value that is not an object, and the handler ends       *)
ExtractResult ==
    /\ hpc = "loop"
    /\ position <= Len(pdf_results)
    /\ Truthy(pdf_results[position].text)
    /\ invocations' = Append(invocations, position)
    /\ \E answer \in HandlerAnswers :
          LET attributes == ExtractAttributes(ReportSchema, answer)
          IN  IF attributes.t = "obj"
              THEN /\ extracted_results' =
                         Append(extracted_results,
                                ExtractedEntry(pdf_results[position], attributes))
                   /\ position' = position + 1
                   /\ UNCHANGED hpc
              ELSE /\ hpc' = "raised"
                   /\ UNCHANGED <<extracted_results, position>>
    /\ UNCHANGED <<pdf_results, handed,
                   cascadeVars, batchVars, attrVars, reportVars, botVars, clientVars>>

(* line 171: output_handler.process_and_save_all_outputs(extracted_results) *)
SaveOutputs ==
    /\ hpc = "loop"
    /\ position > Len(pdf_results)
    /\ handed' = extracted_results
    /\ hpc' = "saving"
    /\ UNCHANGED <<pdf_results, position, invocations, extracted_results,
                   cascadeVars, batchVars, attrVars, reportVars, botVars, clientVars>>

InitHandler ==
    HandlerInit /\ CascadeIdle /\ BatchIdle /\ AttrIdle /\ ReportIdle /\ BotIdle
        /\ ClientsIdle
NextHandler ==
    \/ SkipResult
    \/ ExtractResult
    \/ SaveOutputs
SpecHandler == InitHandler /\ [][NextHandler]_vars

(***************************************************************************)
(* Properties of extract_text_from_pdf (specification Spec).               *)
(***************************************************************************)
Returned == pc = "returned"

Called(strategy) == \E i \in 1..Len(called) : called[i].strategy = strategy

CallFailed(strategy) ==
    \E i \in 1..Len(called) :
        called[i].strategy = strategy /\ called[i].outcome = "fails"

NativeOnly ==
    /\ result.extraction_method = "pdfplumber"
    /\ ~Called("pymupdf")
    /\ ~Called("ocr")

(* C1, as stated: whenever pdfplumber yields text longer than 100          *)
(* characters, the returned extraction_method is pdfplumber and neither    *)
(* PyMuPDF text extraction nor OCR was invoked.                            *)
C1_NativeLongerThan100Wins ==
    (Returned /\ native_yield.yielded /\ native_yield.len > WinThreshold)
        => NativeOnly

(* C1, amended: whenever pdfplumber yields text whose length after         *)
(* stripping leading and trailing whitespace exceeds 100 characters, the   *)
(* returned extraction_method is pdfplumber and neither PyMuPDF text       *)
(* extraction nor OCR was invoked.                                         *)
C1_NativeStrippedLongerThan100Wins ==
    (Returned /\ native_yield.yielded /\ native_yield.stripped > WinThreshold)
        => NativeOnly

C1_Witness ==
    /\ Returned
    /\ native_yield.yielded
    /\ native_yield.stripped = WinThreshold + 1
    /\ NativeOnly

(* C4: every returned result whose final text is shorter than 50           *)
(* characters has confidence_score 0.1 and an insufficient-text entry in   *)
(* errors, whichever path produced it.                                     *)
C4_ShortTextIsDowngraded ==
    (Returned /\ TLen(result.text) < SufficiencyFloor)
        => /\ result.confidence_score = Frac(1, 10)
           /\ \E i \in 1..Len(result.errors) : result.errors[i] = InsufficientText

(* C5: every returned result has confidence_score within [0,1], and every  *)
(* returned result with has_text false has confidence_score <= 0.1.        *)
C5_ScoreInRange ==
    Returned =>
        /\ FLe(FZero, result.confidence_score)
        /\ FLe(result.confidence_score, FOne)
        /\ (~result.has_text => FLe(result.confidence_score, Frac(1, 10)))

C5_Witness ==
    /\ Returned
    /\ result.extraction_method = "ocr"
    /\ result.has_text
    /\ ~FLe(result.confidence_score, Frac(1, 2))
    /\ ~FLe(FOne, result.confidence_score)

(* C6: extract_text_from_pdf never raises: every call runs on to its       *)
(* return with a result holding all nine keys; a strategy whose library    *)
(* call failed is followed by the next strategy (pdfplumber by PyMuPDF,    *)
(* PyMuPDF by OCR; a failed OCR leaves the OCR error in the result), and   *)
(* a failed page count does not stop the call.                             *)
C6_NeverRaisesAndDegrades ==
    /\ DOMAIN result = ResultKeys
    /\ ~Returned => ENABLED Next
    /\ Returned =>
          /\ CallFailed("pdfplumber") => Called("pymupdf")
          /\ CallFailed("pymupdf") => Called("ocr")
          /\ CallFailed("ocr") =>
                /\ result.extraction_method = "ocr"
                /\ result.errors = <<OcrFailed, InsufficientText>>

C6_Witness ==
    /\ Returned
    /\ CallFailed("pdfplumber")
    /\ CallFailed("pymupdf")
    /\ CallFailed("ocr")
    /\ result.page_count = 0
    /\ pdf_pages > 0


(***************************************************************************)
(* Properties of process_multiple_pdfs (specification SpecBatch).          *)
(***************************************************************************)
BatchReturned == bpc = "returned"

(* C2: the returned list has exactly one entry per requested key, and each *)
(* key was submitted and processed exactly once, whatever subset of the    *)
(* documents fails or times out.                                           *)
C2_OneEntryPerKey ==
    BatchReturned =>
        /\ Len(results) = Len(docs)
        /\ \A i \in 1..Len(docs) :
              Cardinality({ j \in 1..Len(results) : results[j].key = Key(i) }) = 1
        /\ Len(task) = Len(docs)
        /\ \A i \in 1..Len(task) : task[i] = "done"

C2_Witness ==
    /\ BatchReturned
    /\ Len(docs) >= 3
    /\ Len(results) = Len(docs)
    /\ timed_out # {}
    /\ \E i \in 1..Len(docs) : i \notin timed_out /\ docs[i].download = "raises"
    /\ \A i \in 1..Len(docs) : i \in timed_out \/ docs[i].download = "raises"

(* C3: in a returned batch, the result of a document whose download raised *)
(* is the placeholder (its filename, empty text, confidence_score 0.0, the *)
(* download error), the result of a document whose extraction failed       *)
(* internally has its filename, empty text, confidence_score 0.0 and the   *)
(* error, and every document that was collected has the text and the score *)
(* of its own extraction, whatever the other documents did.                *)
C3_FailureIsIsolated ==
    BatchReturned =>
        \A k \in 1..Len(docs) :
            k \notin timed_out =>
                /\ results[k].filename = Basename(Key(k))
                /\ docs[k].download = "raises" =>
                      /\ results[k].text = <<>>
                      /\ results[k].confidence_score = FZero
                      /\ results[k].error = DownloadError
                /\ docs[k].download = "ok" =>
                      /\ results[k].text =
                            ExtractTextFromPdf(docs[k], Basename(Key(k))).text
                      /\ results[k].confidence_score =
                            ExtractTextFromPdf(docs[k], Basename(Key(k))).confidence_score
                /\ (docs[k].download = "ok" /\ docs[k].extraction = "failed") =>
                      /\ results[k].text = <<>>
                      /\ results[k].confidence_score = FZero
                      /\ results[k].errors = <<StrategyError>>

C3_Witness ==
    /\ BatchReturned
    /\ timed_out = {}
    /\ Len(docs) >= 3
    /\ docs[2].download = "raises"
    /\ results[2].error = DownloadError
    /\ docs[1].extraction = "native"
    /\ results[1].confidence_score = Frac(95, 100)
    /\ docs[3].extraction = "failed"

Position(i) == CHOOSE p \in 1..Len(results) : results[p].key = Key(i)

C14_TimedOutSlotIsReclaimed ==
    \A i \in timed_out :
        /\ results[Position(i)] = PlaceholderResult(Key(i), TimeoutError)
        /\ task[i] # "running"

(* C15: every call of process_multiple_pdfs eventually returns, also when  *)
(* the processing of some document never finishes.                         *)
C15_EventuallyReturns == <>BatchReturned

(* C16: at every moment at most 3 documents are being processed, and a     *)
(* fourth or later document has started only if an earlier one is done.    *)
C16_AtMostThreeRunning ==
    /\ Cardinality(Running) <= 3
    /\ \A i \in 1..Len(task) :
          (i > 3 /\ task[i] \in {"running", "done"})
              => \E j \in 1..(i - 1) : task[j] = "done"

C16_Witness ==
    /\ Len(task) = 4
    /\ Cardinality(Running) = 3
    /\ task[4] = "running"
    /\ task[2] = "done"


(***************************************************************************)
(* Properties of extract_attributes and of the handler (SpecAttr).         *)
(***************************************************************************)
Responded == apc \in {"responded", "saved", "crashed"}

ModelCallFailed == reply.outcome \in {"client_error", "error"}

SchemaNames == { schema[i].name : i \in 1..Len(schema) }

(* C7: when the model call fails, extracted_attributes of the returned     *)
(* response has exactly the names of the schema as keys, every value is    *)
(* null and every confidence 0.0, and extraction_metadata.error is set.    *)
C7_FallbackMirrorsSchema ==
    (Responded /\ ModelCallFailed) =>
        /\ response.t = "obj"
        /\ DOMAIN response.m = {"extraction_metadata", "extracted_attributes"}
        /\ DOMAIN response.m["extracted_attributes"].m = SchemaNames
        /\ \A name \in SchemaNames :
              /\ response.m["extracted_attributes"].m[name].m["value"] = JNull
              /\ response.m["extracted_attributes"].m[name].m["confidence"] = JNum(0)
        /\ "error" \in DOMAIN response.m["extraction_metadata"].m

C7_Witness ==
    /\ apc = "saved"
    /\ reply.outcome = "client_error"
    /\ Len(schema) = 2
    /\ \E i \in 1..Len(schema) : ~schema[i].required
    /\ DOMAIN consolidated[1].extracted_attributes.m = SchemaNames

ConsolidatedAttributes ==
    UNION { { consolidated[i].extracted_attributes.m[name] :
                name \in DOMAIN consolidated[i].extracted_attributes.m } :
            i \in 1..Len(consolidated) }

HasBreakdown(a) ==
    /\ a.t = "obj"
    /\ {"confidence", "confidence_breakdown"} \subseteq DOMAIN a.m
    /\ a.m["confidence"].t = "num"
    /\ a.m["confidence_breakdown"].t = "obj"
    /\ \A i \in 1..4 :
          /\ BreakdownKeys[i] \in DOMAIN a.m["confidence_breakdown"].m
          /\ a.m["confidence_breakdown"].m[BreakdownKeys[i]].t = "num"

Factor(a, i) == a.m["confidence_breakdown"].m[BreakdownKeys[i]].n

(* C8: every attribute value that reaches the consolidated batch has       *)
(* confidence = 0.25*text_clarity + 0.30*exact_match + 0.25*context_match  *)
(* + 0.20*format_validity, whatever the model reported (scores are in      *)
(* hundredths, so both sides are multiplied by 100).                       *)
C8_ConfidenceFollowsFormula ==
    \A a \in ConsolidatedAttributes :
        HasBreakdown(a) =>
            100 * a.m["confidence"].n =
                25 * Factor(a, 1) + 30 * Factor(a, 2) + 25 * Factor(a, 3)
                    + 20 * Factor(a, 4)

InUnitRange(n) == 0 <= n /\ n <= 100

(* C9: no confidence and no confidence-breakdown value outside [0,1] that  *)
(* the model reported reaches the output of extract_attributes or the      *)
(* consolidated batch.                                                     *)
C9_NoScoreOutsideUnitRange ==
    \A a \in ConsolidatedAttributes :
        /\ (a.t = "obj" /\ "confidence" \in DOMAIN a.m /\ a.m["confidence"].t = "num")
              => InUnitRange(a.m["confidence"].n)
        /\ HasBreakdown(a) => \A i \in 1..4 : InUnitRange(Factor(a, i))

FirstBrace == CHOOSE i \in 1..Len(reply.text) :
                  /\ reply.text[i] = LBrace
                  /\ \A j \in 1..(i - 1) : reply.text[j] # LBrace

LastBrace == CHOOSE i \in 1..Len(reply.text) :
                 /\ reply.text[i] = RBrace
                 /\ \A j \in (i + 1)..Len(reply.text) : reply.text[j] # RBrace

BothBraces ==
    /\ \E i \in 1..Len(reply.text) : reply.text[i] = LBrace
    /\ \E i \in 1..Len(reply.text) : reply.text[i] = RBrace

Recoverable ==
    /\ BothBraces
    /\ JsonLoads(SubSeq(reply.text, FirstBrace, LastBrace)).ok

IsErrorMarker(v) == v.t = "obj" /\ "error" \in DOMAIN v.m

(* C10: the model's text is parsed in two stages: the whole text, then the *)
(* substring from the first '{' to the last '}'; the parsed value of the   *)
(* first stage that succeeds is returned, and when both fail an object     *)
(* with an 'error' key is returned; no text makes the call raise.          *)
C10_TwoStageParse ==
    (Responded /\ reply.outcome = "text") =>
        IF JsonLoads(reply.text).ok
        THEN response = JsonLoads(reply.text).val
        ELSE IF Recoverable
        THEN response = JsonLoads(SubSeq(reply.text, FirstBrace, LastBrace)).val
        ELSE IsErrorMarker(response)

C10_Witness ==
    /\ Responded
    /\ reply.outcome = "text"
    /\ ~JsonLoads(reply.text).ok
    /\ Recoverable
    /\ reply.text[1] = Prose
    /\ "extracted_attributes" \in DOMAIN response.m
    /\ ~IsErrorMarker(response)

ParseFailed ==
    /\ Responded
    /\ reply.outcome = "text"
    /\ ~JsonLoads(reply.text).ok
    /\ ~Recoverable

(* C11: when the model's text is not valid JSON and the substring from the *)
(* first '{' to the last '}' is not valid JSON either, the result of        *)
(* extract_attributes has an extracted_attributes object whose keys are    *)
(* exactly the names of the schema, each with a null value.                *)
C11_ParseFailureMirrorsSchema ==
    ParseFailed =>
        /\ response.t = "obj"
        /\ "extracted_attributes" \in DOMAIN response.m
        /\ DOMAIN response.m["extracted_attributes"].m = SchemaNames
        /\ \A name \in SchemaNames :
              response.m["extracted_attributes"].m[name].m["value"] = JNull

(***************************************************************************)
(* Properties of generate_consolidated_excel_report (SpecReport).          *)
(***************************************************************************)
ReportDone == rpc \in {"generated", "regenerated"}

Tables == ReportDone /\ report.yoy.status = "tables"

(* C17: in the tables of the year-over-year sheet the years ascend, the    *)
(* growth table has one row for every year but the earliest, which has no  *)
(* row at all, and the row of a year holds (current - previous) / previous *)
(* for each column, previous being the value of the year before it in the  *)
(* table (stated for a previous value other than 0, by cross               *)
(* multiplication).                                                        *)
C17_YoyBetweenConsecutiveYears ==
    Tables =>
        LET yearly == report.yoy.yearly
            growth == report.yoy.growth
        IN  /\ \A i \in 1..(Len(yearly) - 1) : yearly[i].year < yearly[i + 1].year
            /\ Len(growth) = Len(yearly) - 1
            /\ \A i \in 1..Len(growth) :
                  /\ growth[i].year = yearly[i + 1].year
                  /\ \A column \in DOMAIN Aggregation :
                        LET previous == yearly[i].data[column]
                            current == yearly[i + 1].data[column]
                            change == growth[i].data[column]
                        IN  previous.n # 0 =>
                                change.n * (current.d * previous.n) =
                                    (current.n * previous.d - previous.n * current.d)
                                        * change.d

C17_Witness ==
    /\ Tables
    /\ Len(json_data_list) = 3
    /\ json_data_list[1] = Statement(JNum(2023), JNum(120), 70)
    /\ Len(report.yoy.yearly) = 3
    /\ report.yoy.yearly[1].year = 2021
    /\ report.yoy.yearly[1].data["Total Revenue"] = Frac(100, 1)
    /\ report.yoy.growth[1].year = 2022
    /\ report.yoy.growth[1].data["Total Revenue"] = Frac(1, 2)
    /\ report.yoy.growth[2].year = 2023
    /\ report.yoy.growth[2].data["Total Revenue"] = Frac(-1, 5)

(* the report years of the batch as the contract counts them: the values   *)
(* of "Report Year" that are numbers or numeric strings, as integers       *)
ReportYears ==
    { IntOf(AttributesOf(json_data_list[i])[ReportYear].m["value"]).int :
        i \in { j \in 1..Len(json_data_list) :
                  /\ ReportYear \in DOMAIN AttributesOf(json_data_list[j])
                  /\ AttributesOf(json_data_list[j])[ReportYear].m["value"].t
                        \in {"num", "str"}
                  /\ IntOf(AttributesOf(json_data_list[j])[ReportYear].m["value"]).ok } }

(* C18: a batch with fewer than 2 distinct report years (none at all, no   *)
(* "Report Year" attribute and the empty batch included) gets the          *)
(* 'insufficient data' note and no table; a batch with 2 or more distinct  *)
(* years gets the tables.                                                  *)
C18_FewerThanTwoYearsIsInsufficient ==
    ReportDone =>
        IF Cardinality(ReportYears) < 2
        THEN report.error = "" /\ report.yoy.status = "insufficient"
        ELSE report.error = "" /\ report.yoy.status = "tables"

(* C19: the documents are grouped by the integer of their report year, so  *)
(* the yearly table has one row for each distinct integer year, whatever   *)
(* its representation, and a year that is not numeric or is missing raises *)
(* no error.                                                               *)
C19_GroupsByIntegerYear ==
    ReportDone =>
        /\ report.error \notin {MixedYearsError, YearLiteralError}
        /\ report.yoy.status = "tables" =>
              /\ Len(report.yoy.yearly) = Cardinality(ReportYears)
              /\ { report.yoy.yearly[i].year : i \in 1..Len(report.yoy.yearly) }
                    = ReportYears

WithValue(attr_name) ==
    LET with == SelectSeq(json_data_list, LAMBDA d :
                    /\ attr_name \in DOMAIN AttributesOf(d)
                    /\ AttributesOf(d)[attr_name].t = "obj"
                    /\ GetOr(AttributesOf(d)[attr_name], "value", JNull) # JNull)
    IN  [i \in 1..Len(with) |->
            [confidence |-> GetOr(AttributesOf(with[i])[attr_name],
                                  "confidence", JNum(0)).n,
             breakdown |-> GetOr(AttributesOf(with[i])[attr_name],
                                 "confidence_breakdown", JObj(<<>>)).m]]

(* C21: the statistics of an attribute (average, minimum and maximum       *)
(* confidence and the four factor averages) are those of the documents     *)
(* where the attribute is present with a non-null value; a document where  *)
(* it is absent or null contributes to none of them.                       *)
C21_StatisticsOverNonNullOnly ==
    (ReportDone /\ report.error = "") =>
        \A name \in DOMAIN report.attribute_confidence :
            LET confidences == [i \in 1..Len(WithValue(name)) |->
                                   WithValue(name)[i].confidence]
                stats == report.attribute_confidence[name]
            IN  /\ confidences # <<>>
                /\ stats.avg_confidence = Average(confidences)
                /\ stats.min_confidence = Least(confidences)
                /\ stats.max_confidence = Greatest(confidences)
                /\ stats.avg_factors = [i \in 1..4 |->
                       Average(FactorScores(WithValue(name), BreakdownKeys[i]))]

(* the attribute names of the batch none of whose entries is a dictionary  *)
WithoutEntries ==
    { name \in UNION { DOMAIN AttributesOf(json_data_list[i]) :
                          i \in 1..Len(json_data_list) } :
        ConfidenceData(json_data_list, name) = <<>> }

(* C22: no division of the aggregation is by zero.  The empty batch gets   *)
(* the averages 0 in the processing summary and in the quality summary     *)
(* and no attribute row; an attribute without contributing entries gets    *)
(* no row; an attribute whose entries carry no breakdown gets the factor   *)
(* averages 0.                                                             *)
C22_NoDivisionByZero ==
    ReportDone =>
        /\ report.error # ZeroDivisionError
        /\ processing_summary.average_confidence # Raised
        /\ json_data_list = <<>> =>
              /\ processing_summary.average_confidence = FZero
              /\ report.error = ""
              /\ report.quality.avg_confidence = FZero
              /\ report.quality.success_rate = FZero
              /\ report.attribute_confidence = <<>>
        /\ report.error = "" =>
              /\ Raised \notin {report.quality.avg_confidence,
                                report.quality.success_rate}
              /\ WithoutEntries \cap DOMAIN report.attribute_confidence = {}
              /\ \A name \in DOMAIN report.attribute_confidence :
                    LET stats == report.attribute_confidence[name]
                    IN  /\ stats.avg_confidence # Raised
                        /\ \A i \in 1..4 : stats.avg_factors[i] # Raised
                        /\ (\A i \in 1..Len(ConfidenceData(json_data_list, name)) :
                               DOMAIN ConfidenceData(json_data_list, name)[i].breakdown = {})
                              => stats.avg_factors = [i \in 1..4 |-> FZero]

C22_Witness ==
    /\ ReportDone
    /\ report.error = ""
    /\ json_data_list = <<FlatDocument, SkippedDocument>>
    /\ "Total Revenue" \in WithoutEntries
    /\ report.attribute_confidence = <<>>
    /\ report.quality.avg_confidence = Frac(45, 1)
    /\ processing_summary.average_confidence = Frac(45, 1)

(***************************************************************************)
(* Properties of _check_data_availability (specification SpecBot).         *)
(***************************************************************************)
Checked == qpc = "checked"

(* the confidences that are numbers, of the entries of the context's items *)
NumericScores ==
    LET confidence_scores == ConfidenceScores(context_data)
    IN  [i \in 1..Len(confidence_scores) |-> confidence_scores[i].n]

AlternateReturned == Returned /\ Called("pymupdf")

(* C24: a text-layer strategy wins whenever it returns non-empty text,     *)
(* whatever its length: non-empty text of pdfplumber is the result's text  *)
(* with method 'pdfplumber', has_text true and confidence 0.95; empty text *)
(* of pdfplumber and non-empty text of PyMuPDF give that text with method  *)
(* 'pymupdf' and confidence 0.90.                                          *)
C24_NonEmptyTextLayerWins ==
    Returned =>
        /\ (native_yield.yielded /\ native_yield.len > 0) =>
              /\ NativeOnly
              /\ result.text = text_content
              /\ result.has_text
              /\ result.confidence_score = Frac(95, 100)
        /\ (native_yield.yielded /\ native_yield.len = 0
                /\ AlternateReturned /\ Truthy(text_content)) =>
              /\ result.extraction_method = "pymupdf"
              /\ result.text = text_content
              /\ result.confidence_score = Frac(90, 100)

(* C25: a text of exactly 60 characters from pdfplumber wins with method   *)
(* 'pdfplumber' and confidence 0.95 and is not downgraded; a final text of *)
(* 40 characters is downgraded to 0.1 whatever its source.                 *)
C25_SixtyWinsFortyIsDowngraded ==
    Returned =>
        /\ (native_yield.yielded /\ native_yield.len = 60) =>
              /\ NativeOnly
              /\ result.confidence_score = Frac(95, 100)
              /\ \A i \in 1..Len(result.errors) : result.errors[i] # InsufficientText
        /\ TLen(result.text) = 40 => result.confidence_score = Frac(1, 10)

(* OCR ran without failing and none of the pages it scanned yielded text *)
OcrWithoutText ==
    \E i \in 1..Len(called) :
        /\ called[i].strategy = "ocr"
        /\ called[i].outcome = "ok"
        /\ called[i].yielding = 0

(* C26, as stated: when the cascade falls through to OCR and no page       *)
(* yields text, the returned result has confidence_score 0 and an OCR      *)
(* error in errors.                                                        *)
C26_OcrWithoutTextScoresZero ==
    (Returned /\ OcrWithoutText) =>
        /\ result.confidence_score = FZero
        /\ \E i \in 1..Len(result.errors) : result.errors[i] = OcrUnreadable

(* C26, amended: when the cascade falls through to OCR and no page yields  *)
(* text, the result of the OCR strategy has confidence_score 0 and the     *)
(* error that OCR could not extract readable text; the result returned by  *)
(* extract_text_from_pdf keeps that error, gains the insufficient-text     *)
(* error and has confidence_score 0.1.                                     *)
C26_OcrWithoutTextIsDowngraded ==
    /\ (pc \in {"page_count", "finish"} /\ OcrWithoutText) =>
          /\ result.extraction_method = "ocr"
          /\ ~result.has_text
          /\ result.confidence_score = FZero
          /\ result.errors = <<OcrUnreadable>>
    /\ (Returned /\ OcrWithoutText) =>
          /\ result.extraction_method = "ocr"
          /\ ~result.has_text
          /\ result.confidence_score = Frac(1, 10)
          /\ result.errors = <<OcrUnreadable, InsufficientText>>

C26_Witness ==
    /\ Returned
    /\ OcrWithoutText
    /\ pdf_pages = 2
    /\ result.page_count = 2
    /\ result.confidence_score = Frac(1, 10)

(***************************************************************************)
(* Further properties of the handler's loop body (specification SpecAttr). *)
(***************************************************************************)
RECURSIVE Drop(_, _)
Drop(text, k) ==
    IF text = <<>> THEN <<>>
    ELSE IF k >= Head(text).n THEN Drop(Tail(text), k - Head(text).n)
    ELSE << [Head(text) EXCEPT !.n = @ - k] >> \o Tail(text)

(* adjacent runs of the same kind made one *)
RECURSIVE Merged(_)
Merged(text) ==
    IF Len(text) < 2 THEN text
    ELSE IF text[1].ws = text[2].ws
         THEN Merged(<< [text[1] EXCEPT !.n = @ + text[2].n] >> \o SubSeq(text, 3, Len(text)))
         ELSE <<text[1]>> \o Merged(Tail(text))

Requested == apc \in {"responded", "saved", "crashed"} /\ reply # NoAnswer

(* C27: the request carries at most the first 8000 characters of the       *)
(* text: for a longer text exactly its 8000-character prefix and nothing   *)
(* of the remainder, for a shorter one the whole text; a long text is no   *)
(* error: a well-formed answer is returned as it parses.                   *)
C27_RequestIsPrefixOf8000 ==
    Requested =>
        /\ TLen(request) = Min(TLen(pdf_result.text), 8000)
        /\ Merged(request \o Drop(pdf_result.text, TLen(request)))
              = Merged(pdf_result.text)
        /\ (reply.outcome = "text" /\ reply.text \in DocumentTexts) =>
              /\ response = JsonLoads(reply.text).val
              /\ response.t = "obj"
              /\ "error" \notin DOMAIN response.m
              /\ "error" \notin DOMAIN response.m["extraction_metadata"].m

C27_Witness ==
    /\ apc = "saved"
    /\ TLen(pdf_result.text) = 10016
    /\ request = <<NonWs(9)[1], Ws(1)[1], NonWs(5)[1], Ws(1)[1], NonWs(7984)[1]>>
    /\ reply.text \in DocumentTexts
    /\ consolidated[1].extraction_metadata = response.m["extraction_metadata"]

(* the call of a strategy that returned, if there is one *)
ReturnedFrom(strategy) ==
    \E i \in 1..Len(called) :
        called[i].strategy = strategy /\ called[i].outcome # "escapes"

CallOf(strategy) ==
    called[CHOOSE i \in 1..Len(called) : called[i].strategy = strategy]

Exceeds(text) == TLen(text) > 0 /\ TLen(Strip(text)) > 100

(* the order of the calls: pdfplumber, then PyMuPDF only when the text of  *)
(* pdfplumber did not exceed the threshold, then OCR exactly when neither  *)
(* text exceeded it                                                        *)
StrictOrder ==
    /\ \A i \in 1..Len(called) :
          called[i].strategy = <<"pdfplumber", "pymupdf", "ocr">>[i]
    /\ Called("pymupdf") =>
          /\ ReturnedFrom("pdfplumber")
          /\ ~Exceeds(CallOf("pdfplumber").returned)
    /\ Called("ocr") <=>
          /\ ReturnedFrom("pdfplumber")
          /\ ~Exceeds(CallOf("pdfplumber").returned)
          /\ ReturnedFrom("pymupdf")
          /\ ~Exceeds(CallOf("pymupdf").returned)

(* C28, as stated: the cascade order is strict, and when OCR is used the   *)
(* result has extraction_method 'ocr', has_images true, and the text,      *)
(* has_text and errors that OCR returned.                                  *)
C28_StrictOrderAndOcrResult ==
    Returned =>
        /\ StrictOrder
        /\ ReturnedFrom("ocr") =>
              /\ result.extraction_method = "ocr"
              /\ result.has_images
              /\ result.text = CallOf("ocr").returned.text
              /\ result.has_text = CallOf("ocr").returned.has_text
              /\ result.errors = CallOf("ocr").returned.errors

(* C28, amended: the cascade order is strict, and when OCR is used the     *)
(* result has extraction_method 'ocr', has_images true, the text and       *)
(* has_text that OCR returned, and the errors that OCR returned followed   *)
(* by the insufficient-text error when that text is empty or shorter than  *)
(* 50 characters after stripping.                                          *)
C28_StrictOrderAndOcrResultWithCheck ==
    Returned =>
        /\ StrictOrder
        /\ ReturnedFrom("ocr") =>
              /\ result.extraction_method = "ocr"
              /\ result.has_images
              /\ result.text = CallOf("ocr").returned.text
              /\ result.has_text = CallOf("ocr").returned.has_text
              /\ result.errors =
                    CallOf("ocr").returned.errors
                       \o IF TLen(Strip(result.text)) < 50
                          THEN <<InsufficientText>> ELSE <<>>

C28_Witness ==
    /\ Returned
    /\ Len(called) = 3
    /\ TLen(CallOf("pdfplumber").returned) = 100
    /\ TLen(Strip(CallOf("pymupdf").returned)) = 60
    /\ result.extraction_method = "ocr"
    /\ result.has_text
    /\ result.errors = <<>>
    /\ TLen(result.text) > 50

(***************************************************************************)
(* Properties of initialize_clients (specification SpecClients).           *)
(***************************************************************************)
InitializationEnded == ipc \in {"stopped", "initialized", "extracting"}

(* the variables that the active S3 mode requires are set *)
ModeVariablesSet ==
    IF ~Falsy(environ["S3_BUCKET_NAME"]) THEN TRUE
    ELSE ~Falsy(environ["S3_INPUT_BUCKET"]) /\ ~Falsy(environ["S3_OUTPUT_BUCKET"])

(* C29: unless the creation of a boto3 client itself raises, the           *)
(* initialization succeeds exactly when the variables of the active S3     *)
(* mode are set (S3_BUCKET_NAME, or S3_INPUT_BUCKET and S3_OUTPUT_BUCKET); *)
(* when they are missing it fails at the check, before any client is       *)
(* constructed, and no extraction starts.                                  *)
C29_InitializedIffModeVariablesSet ==
    /\ (InitializationEnded /\ init_error # ClientError) =>
          (clients = AllClients <=> ModeVariablesSet)
    /\ (InitializationEnded /\ ~ModeVariablesSet) =>
          /\ ipc = "stopped"
          /\ init_error = MissingVariables
          /\ clients = {}
    /\ ipc = "extracting" => ModeVariablesSet

(***************************************************************************)
(* Properties of the extract-button handler (specification SpecHandler).   *)
(***************************************************************************)
Mapping(value) == value.t = "obj"

(* C30: the extractor is invoked exactly once for each result with         *)
(* non-empty text and never for one with empty text; every entry handed to *)
(* the output saving carries an extracted_attributes mapping and an        *)
(* extraction_metadata mapping; there are as many entries as selected      *)
(* documents.                                                              *)
C30_OneCallPerTextAndCompleteEntries ==
    /\ \A k \in 1..Len(invocations) :
          /\ Truthy(pdf_results[invocations[k]].text)
          /\ \A j \in 1..Len(invocations) : j # k => invocations[j] # invocations[k]
    /\ hpc = "saving" =>
          /\ { invocations[k] : k \in 1..Len(invocations) }
                = { i \in 1..Len(pdf_results) : Truthy(pdf_results[i].text) }
          /\ Len(handed) = Len(pdf_results)
          /\ \A i \in 1..Len(handed) :
                /\ "extracted_attributes" \in DOMAIN handed[i]
                /\ "extraction_metadata" \in DOMAIN handed[i]
                /\ Mapping(handed[i].extracted_attributes)
                /\ Mapping(handed[i].extraction_metadata)

====
